---- MODULE Spec2Model ----
(***************************************************************************)
(* The cache history store of nix_shell (src/nix_shell/cache.py) together  *)
(* with the part of NixBuild (src/nix_shell/build.py) that the store uses: *)
(* build_id, the memoized derivation / dev_env slots, save_json, save_link *)
(* and load.                                                               *)
(*                                                                         *)
(* Keys.  Build identities and cache keys are both strings in the code and *)
(* share one namespace (lookup falls back from alias to identity, and the  *)
(* artifact file name is "<cache_key or build_id>.json").  They are        *)
(* modelled as one set of integers: 1..NumBuilds are the identities of the *)
(* build requests, the next NumAliases numbers are keys that are no        *)
(* build's identity.  0 stands for None / "no such file".  Callers pass    *)
(* only keys of the second kind as cache_key (a caller-chosen name is not  *)
(* an md5 digest); lookup is called with keys of both kinds.               *)
(*                                                                         *)
(* Clock.  time.time() is modelled as a strictly increasing clock: every   *)
(* call returns `now` and advances it by one.                              *)
(*                                                                         *)
(* Specifications.  Spec is the store.  The further specifications each    *)
(* take one part of the program over its own variables and hold the        *)
(* variables of the other parts at their idle values:                      *)
(*   SpecHistoryFile  CacheHistory(...) over an arbitrary history.json     *)
(*   SpecBuildId      _get_build_id on a request and on a variant of it    *)
(*   SpecParseArgs    _parse_args on every request                         *)
(*   SpecActivate     NixShell.activate on a process environment            *)
(*   SpecExec         the subprocess wrappers of one NixShell               *)
(*   SpecRecency      pushes and lookups of builds, the store object        *)
(*                    dropped and constructed again in between             *)
(*   SpecPushFail     pushes during which the external tool can fail       *)
(*   SpecDumps        dsl.core.dumps on every short string                  *)
(*   SpecRace         two processes running cache.load on one cache root    *)
(*   SpecMemo         the memoized slots of one NixShell and of the        *)
(*                    process, over external tool runs that can fail       *)
(*   SpecVenv         one build object used again and again: build_id,     *)
(*                    load, persist_venv and cache.load, over artifacts    *)
(*                    that other builds wrote or that got corrupted        *)
(***************************************************************************)
EXTENDS Integers, Sequences, FiniteSets, TLC

NumBuilds == 2
NumAliases == 1
MaxHistory == 2
MaxTime == 3

None == 0
BuildIds == 1..NumBuilds
AliasKeys == (NumBuilds + 1)..(NumBuilds + NumAliases)
CacheKeys == BuildIds \cup AliasKeys
Histories == 1..MaxHistory

VARIABLES
    entries,        \* CacheHistory._entries of the live store object
    aliases,        \* CacheHistory._aliases: CacheKeys -> build_id, None if absent
    max_history,    \* CacheHistory.max_history
    history_file,   \* history.json: whether it exists, and its contents
    json_files,     \* "<key>.json" artifacts: key -> saved metadata, NoJson if absent
    profile_files,  \* "<key>-profile" links: key -> build_id linked, None if absent
    now,            \* the value the next time.time() call returns
    req,            \* the NixBuild object the caller holds from cache.load
    call,           \* history variable: what held when that cache.load was called
    pushed,         \* history variable: per identity, time and file key of its push
    clean,          \* history variable: only distinct pushes with distinct files so far
    bound,          \* history variable: <<alias, identity>> pushed and retained since
    hfile,          \* SpecHistoryFile: what history.json holds before construction
    hstore,         \* SpecHistoryFile: the outcome of CacheHistory(history_file, n)
    venv_json,      \* SpecVenv: LOCAL_CACHE_ROOT/<name>.json, NoJson if absent
    raised,         \* SpecVenv: the exception the latest operation raised
    computed_id,    \* SpecVenv, history: what _get_build_id returned for the object
    found_corrupt,  \* SpecVenv, history: the latest operation read a corrupt JSON
    persist,        \* SpecVenv, history: the object and <name>.json before the
                    \* persist_venv call that was the latest operation
    params,         \* NixBuild.params: the build request
    files,          \* SpecBuildId: the contents of the files on disk, by path
    digest,         \* SpecBuildId: _get_build_id() of the request, once computed
    other,          \* SpecBuildId: a second request, its files and its digest
    nixfmt,         \* whether shutil.which("nixfmt") finds the formatter
    args,           \* SpecParseArgs: what the two _parse_args return for params
    slots,          \* SpecMemo: the memoized values, the successful computations
                    \* counted per slot, and the first value each slot got
    result,         \* SpecMemo: what the latest operation did and returned
    os_environ,     \* SpecActivate: os.environ, a value or Absent per name
    shell_env,      \* the captured environment of the shell (self.env)
    act,            \* the activations so far and os.environ before the latest
    calls,          \* SpecExec: the latest two calls of a subprocess wrapper
    recency,        \* SpecRecency, history: when each build was last used
    failed,         \* SpecPushFail, history: the world before and after a failed push
    nix_str,        \* SpecDumps: the string handed to dumps, as its characters
    dumped,         \* SpecDumps: what dumps returned, as its characters
    proc,           \* SpecRace: each process: its position, build and store object
    race            \* SpecRace, history: the order of reads and writes

storeVars == <<entries, aliases, max_history, history_file, json_files, profile_files,
               now, req, call, pushed, clean, bound>>
hfileVars == <<hfile, hstore>>
venvVars == <<venv_json, raised, computed_id, found_corrupt, persist>>
idVars == <<files, digest, other>>
memoVars == <<slots, result>>
activateVars == <<os_environ, shell_env, act>>

execVars == <<calls>>

pushVars == <<recency, failed>>

dumpsVars == <<nix_str, dumped>>

raceVars == <<proc, race>>

vars == <<storeVars, hfileVars, venvVars, params, idVars, nixfmt, args, memoVars, activateVars, execVars, pushVars, dumpsVars, raceVars>>

\* What the actions of one part leave unchanged: the variables of the others.
notStore == <<hfileVars, venvVars, params, idVars, nixfmt, args, memoVars, activateVars, execVars, pushVars, dumpsVars, raceVars>>
notHfile == <<storeVars, venvVars, params, idVars, nixfmt, args, memoVars, activateVars, execVars, pushVars, dumpsVars, raceVars>>
notVenv == <<hfileVars, call, pushed, clean, bound, params, idVars, nixfmt, args, memoVars, activateVars, execVars, pushVars, dumpsVars, raceVars>>
notBuildId == <<storeVars, hfileVars, venvVars, nixfmt, args, memoVars, activateVars, execVars, pushVars, dumpsVars, raceVars>>
notMemo == <<storeVars, hfileVars, venvVars, idVars, args, activateVars, execVars, pushVars, dumpsVars, raceVars>>
notParseArgs == <<storeVars, hfileVars, venvVars, idVars, memoVars, activateVars, execVars, pushVars, dumpsVars, raceVars>>
notActivate == <<storeVars, hfileVars, venvVars, params, idVars, nixfmt, args, memoVars, execVars, pushVars, dumpsVars, raceVars>>
notExec == <<storeVars, hfileVars, venvVars, params, idVars, nixfmt, args, memoVars, shell_env, act, pushVars, dumpsVars, raceVars>>
notPush == <<req, call, pushed, clean, bound, hfileVars, venvVars, params, idVars, nixfmt, args, memoVars, activateVars, execVars, dumpsVars, raceVars>>
notDumps == <<storeVars, hfileVars, venvVars, params, idVars, nixfmt, args, memoVars, activateVars, execVars, pushVars, raceVars>>
notRace == <<entries, aliases, max_history, req, call, pushed, clean, bound,
            hfileVars, venvVars, params, idVars, nixfmt, args, memoVars, activateVars, execVars, pushVars, dumpsVars>>

----------------------------------------------------------------------------
(* Sequence helpers used by the list operations of push.                   *)

Min(a, b) == IF a < b THEN a ELSE b

\* lst[:n]
Take(lst, n) == SubSeq(lst, 1, Min(n, Len(lst)))

\* lst[n:]
Drop(lst, n) == SubSeq(lst, Min(n, Len(lst)) + 1, Len(lst))

\* list.sort(key=timestamp, reverse=True) is stable: an element goes after
\* every element whose timestamp is greater than or equal to its own.
RECURSIVE InsertDesc(_, _)
InsertDesc(sorted, e) ==
    IF sorted = <<>> THEN <<e>>
    ELSE IF Head(sorted).timestamp >= e.timestamp
         THEN <<Head(sorted)>> \o InsertDesc(Tail(sorted), e)
         ELSE <<e>> \o sorted

RECURSIVE SortDesc(_)
SortDesc(lst) ==
    IF lst = <<>> THEN <<>>
    ELSE InsertDesc(SortDesc(SubSeq(lst, 1, Len(lst) - 1)), lst[Len(lst)])

----------------------------------------------------------------------------
(* NixBuild: the metadata a build object saves and loads.                  *)

\* A fresh NixBuild for the request whose identity is b: nothing memoized.
NewBuild(b) ==
    [params |-> b, build_id |-> None, derivation |-> None, dev_env |-> None,
     from_cache |-> FALSE, tools |-> 0]

\* NixBuild.build_id (cached_property): the memoized value if there is one,
\* otherwise the digest of the parameters.
build_id_of(build) == IF build.build_id # None THEN build.build_id ELSE build.params

\* NixBuild.derivation / dev_env (cached_property): the value, and the number
\* of external tool invocations the access makes (0 when memoized).
derivation_of(build) == IF build.derivation # None THEN build.derivation ELSE build.params
derivation_tools(build) == IF build.derivation # None THEN 0 ELSE 1
dev_env_of(build) == IF build.dev_env # None THEN build.dev_env ELSE build.params
dev_env_tools(build) == IF build.dev_env # None THEN 0 ELSE 1

\* NixBuild.save_json: the JSON document written, one field per _venv_keys key.
save_json(build) ==
    [build_id |-> build_id_of(build),
     derivation |-> derivation_of(build),
     dev_env |-> dev_env_of(build)]

\* Tool invocations of save_json (derivation show, print-dev-env) and of
\* save_link (nix build --out-link).
save_json_tools(build) == derivation_tools(build) + dev_env_tools(build)
save_link_tools == 1

\* What json_files holds for a path at which no file exists.
NoJson == [build_id |-> None, derivation |-> None, dev_env |-> None]

\* The build object after save_json and save_link: the cached properties are
\* evaluated, `tools` counts the invocations the two calls made.
Evaluated(build) ==
    [build EXCEPT !.build_id = build_id_of(build),
                  !.derivation = derivation_of(build),
                  !.dev_env = dev_env_of(build),
                  !.tools = save_json_tools(build) + save_link_tools]

\* load as it would be if the dev_env key were not restored.
load_without_dev_env(build, data) ==
    [build EXCEPT !.build_id = data.build_id,
                  !.derivation = data.derivation,
                  !.from_cache = TRUE]

\* NixBuild.load: every key of the document that is in _venv_keys is written
\* into the instance __dict__, build_id included.
load(build, data) ==
    [build EXCEPT !.build_id = data.build_id,
                  !.derivation = data.derivation,
                  !.dev_env = data.dev_env,
                  !.from_cache = TRUE]

----------------------------------------------------------------------------
(* CacheHistory.  The operations work on a record                          *)
(*   [entries, aliases, max_history, history_file, json_files,             *)
(*    profile_files, now]                                                  *)
(* holding the store object and the part of the world it touches, and      *)
(* return the record after the call.                                       *)

NoAliases == [k \in CacheKeys |-> None]

\* CacheHistory._load: the entries and aliases read from history.json, both
\* empty while the file does not exist.
CacheHistory_load(file) ==
    IF ~file.exists
    THEN [entries |-> <<>>, aliases |-> NoAliases]
    ELSE [entries |-> file.entries, aliases |-> file.aliases]

\* CacheHistory.__init__: a store object over the persisted history.
CacheHistory_init(w, n) ==
    [w EXCEPT !.entries = CacheHistory_load(w.history_file).entries,
              !.aliases = CacheHistory_load(w.history_file).aliases,
              !.max_history = n]

\* CacheHistory._save: history.json := {entries, aliases}.
CacheHistory_save(w) ==
    [w EXCEPT !.history_file = [exists |-> TRUE, entries |-> w.entries,
                                  aliases |-> w.aliases]]

\* file_key = cache_key if cache_key is not None else build_id
file_key_of(b, cache_key) == IF cache_key # None THEN cache_key ELSE b

\* self._aliases[cache_key] = build_id, only when a cache_key is given
UpdateAliases(als, cache_key, b) ==
    IF cache_key # None THEN [als EXCEPT ![cache_key] = b] ELSE als

\* push as it would be if the existing entry were not removed.
RemoveExisting_keeps(lst, b) == lst

\* [e for e in self._entries if e["build_id"] != build_id]
RemoveExisting(lst, b) == SelectSeq(lst, LAMBDA e : e.build_id # b)

\* self._entries[self.max_history:] and self._entries[:self.max_history]
OldEntries(lst, n) == Drop(lst, n)
KeptEntries(lst, n) == Take(lst, n)

\* push as it would be if the aliases of an evicted entry were kept.
RemoveAliasesTo_keeps(als, b) == als

\* {k: v for k, v in self._aliases.items() if v != old_entry["build_id"]}
RemoveAliasesTo(als, b) == [k \in CacheKeys |-> IF als[k] = b THEN None ELSE als[k]]

\* _cleanup_entry as it would be if only the JSON artifact were unlinked.
cleanup_entry_keeps_profile(w, entry) ==
    [w EXCEPT !.json_files = [@ EXCEPT ![entry.json_path] = NoJson]]

\* CacheHistory._cleanup_entry: unlink the entry's two files if they exist.
cleanup_entry(w, entry) ==
    [w EXCEPT !.json_files = [@ EXCEPT ![entry.json_path] = NoJson],
              !.profile_files = [@ EXCEPT ![entry.profile_path] = None]]

\* for old_entry in old_entries: _cleanup_entry, then drop its aliases
RECURSIVE CleanupOld(_, _)
CleanupOld(w, old) ==
    IF old = <<>> THEN w
    ELSE LET w1 == cleanup_entry(w, Head(old))
             w2 == [w1 EXCEPT !.aliases = RemoveAliasesTo(w1.aliases, Head(old).build_id)]
         IN  CleanupOld(w2, Tail(old))

\* CacheHistory.push
push(w, build, cache_key) ==
    LET b == build_id_of(build)
        file_key == file_key_of(b, cache_key)
        entry == [build_id |-> b, timestamp |-> w.now,
                  json_path |-> file_key, profile_path |-> file_key]
        sorted == SortDesc(Append(RemoveExisting(w.entries, b), entry))
        w1 == [w EXCEPT !.json_files = [@ EXCEPT ![file_key] = save_json(build)],
                        !.profile_files = [@ EXCEPT ![file_key] = build.params],
                        !.now = @ + 1,
                        !.aliases = UpdateAliases(@, cache_key, b),
                        !.entries = KeptEntries(sorted, w.max_history)]
    IN  CacheHistory_save(CleanupOld(w1, OldEntries(sorted, w.max_history)))

\* Index of the first entry whose build_id is b, 0 if there is none.
FindEntry(lst, b) ==
    IF \E i \in 1..Len(lst) : lst[i].build_id = b
    THEN CHOOSE i \in 1..Len(lst) :
            /\ lst[i].build_id = b
            /\ \A j \in 1..(i - 1) : lst[j].build_id # b
    ELSE 0

\* The hit branch of get and lookup: entry["timestamp"] = time.time()
Touch(w, i) ==
    IF i = 0 THEN w
    ELSE [w EXCEPT !.entries = [@ EXCEPT ![i].timestamp = w.now], !.now = @ + 1]

\* CacheHistory.get(build): the index of the entry returned (0 for None) ...
get(w, build) == FindEntry(w.entries, build_id_of(build))

\* lookup as it would be with self._aliases.get(cache_key): no fallback.
Resolve_no_fallback(als, cache_key) == als[cache_key]

\* self._aliases.get(cache_key, cache_key)
Resolve(als, cache_key) == IF als[cache_key] # None THEN als[cache_key] ELSE cache_key

\* CacheHistory.lookup(cache_key): the index of the entry returned (0 for None)
lookup(w, cache_key) == FindEntry(w.entries, Resolve(w.aliases, cache_key))

\* What get returns when it raises instead: a str has no build_id attribute.
AttributeError == -1

\* CacheHistory.get("<key>"), the call src/test_cache_history_class.py makes:
\* `build.build_id` is evaluated on the str before anything else.
get_str(w, key) == AttributeError

\* CacheHistory.peek: the index of the entry returned (0 for None)
peek(w) == IF w.entries # <<>> THEN 1 ELSE 0

----------------------------------------------------------------------------
(* cache.load / cache._load                                                *)

\* The record of the store and its world, from the variables.
World ==
    [entries |-> entries, aliases |-> aliases, max_history |-> max_history,
     history_file |-> history_file, json_files |-> json_files,
     profile_files |-> profile_files, now |-> now]

\* Path.exists() of an entry's json_path
json_exists(w, path) == w.json_files[path] # NoJson

\* cache._load up to the test `if entry is not None`: the store constructed
\* over history.json, and the index of the entry found (0 for None).
cache_load_store(w, history) == CacheHistory_init(w, history)
cache_load_find(w, build, cache_key) ==
    IF cache_key # None THEN lookup(w, cache_key) ELSE get(w, build)

\* `entry is not None and json_path.exists()`: the cached metadata is used.
cache_load_hit(w, i) == i # 0 /\ json_exists(w, w.entries[i].json_path)

\* cache._load: the world after the call, the build object returned, and
\* the number of time.time() calls made (one for a found entry, one for push).
cache_load(w, build, cache_key, history) ==
    LET w0 == cache_load_store(w, history)
        i == cache_load_find(w0, build, cache_key)
        w1 == Touch(w0, i)
    IN  IF cache_load_hit(w1, i)
        THEN [world |-> CacheHistory_save(w1),
              build |-> load(build, w1.json_files[w1.entries[i].json_path]),
              ticks |-> 1]
        ELSE [world |-> push(w1, build, cache_key),
              build |-> Evaluated(build),
              ticks |-> IF i # 0 THEN 2 ELSE 1]

----------------------------------------------------------------------------
(* History variables.                                                      *)

NoPushes == [b \in BuildIds |-> [at |-> 0, key |-> None]]

RetainedIds(lst) == {lst[i].build_id : i \in 1..Len(lst)}

\* A push keeps the run "clean" when the run was clean, the identity was
\* never pushed before and the file key was never used before.
CleanPush(b, cache_key) ==
    /\ clean
    /\ pushed[b].at = 0
    /\ \A c \in BuildIds : pushed[c].at # 0 => pushed[c].key # file_key_of(b, cache_key)

\* The alias pairs that were pushed and whose identity has been retained ever
\* since; `rebound` records that a later push gave the alias to another
\* identity.
BoundAfterPush(lst, b, cache_key) ==
    LET marked == {IF x.alias = cache_key /\ x.build_id # b
                   THEN [x EXCEPT !.rebound = TRUE] ELSE x : x \in bound}
        added == IF cache_key = None THEN marked
                 ELSE {x \in marked : ~(x.alias = cache_key /\ x.build_id = b)}
                      \cup {[alias |-> cache_key, build_id |-> b, rebound |-> FALSE]}
    IN  {x \in added : x.build_id \in RetainedIds(lst)}

BoundAfter(lst) == {x \in bound : x.build_id \in RetainedIds(lst)}

\* The request's identity has a retained entry, in the persisted history,
\* whose JSON artifact exists.
HasCached(b) ==
    \E i \in 1..Len(history_file.entries) :
        /\ history_file.entries[i].build_id = b
        /\ json_files[history_file.entries[i].json_path] # NoJson

\* ... and the key cache.load looks up (cache_key if given, else the
\* identity) resolves to that entry.
FindsCached(b, cache_key) ==
    LET key == IF cache_key # None THEN cache_key ELSE b
        i == FindEntry(history_file.entries, Resolve(history_file.aliases, key))
    IN  /\ i # 0
        /\ history_file.entries[i].build_id = b
        /\ json_files[history_file.entries[i].json_path] # NoJson

NoCall == [had_entry |-> FALSE, found |-> FALSE]

----------------------------------------------------------------------------
(* CacheHistory over an arbitrary history.json.                            *)

NoError == "none"

\* What a history file can hold.  `kind` is "missing" (no file), "invalid"
\* (not JSON, the empty file included), "scalar" (valid JSON that is a
\* number, string, true, false or null), "list" (a JSON array: the old
\* format) or "object" (a JSON object: has_entries / has_aliases tell which
\* of the two keys it has).
HistoryContent(kind, has_entries, lst, has_aliases, als) ==
    [kind |-> kind, has_entries |-> has_entries, entries |-> lst,
     has_aliases |-> has_aliases, aliases |-> als]

\* An entry as push writes it.
HistoryEntry(b) ==
    [build_id |-> b, timestamp |-> 1, json_path |-> b, profile_path |-> b]

EntryLists ==
    UNION {{[i \in 1..n |-> HistoryEntry(ids[i])] : ids \in [1..n -> BuildIds]} :
           n \in 0..MaxHistory}

AliasMaps == [CacheKeys -> BuildIds \cup {None}]

HistoryContents ==
    {HistoryContent(k, FALSE, <<>>, FALSE, NoAliases) : k \in {"missing", "invalid", "scalar"}}
    \cup {HistoryContent("list", FALSE, lst, FALSE, NoAliases) : lst \in EntryLists}
    \cup {HistoryContent("object", TRUE, lst, TRUE, als) :
              lst \in EntryLists, als \in AliasMaps}
    \cup {HistoryContent("object", TRUE, lst, FALSE, NoAliases) : lst \in EntryLists}
    \cup {HistoryContent("object", FALSE, <<>>, TRUE, als) : als \in AliasMaps}
    \cup {HistoryContent("object", FALSE, <<>>, FALSE, NoAliases)}

\* The store object a construction leaves, or the exception it raises.
Constructed(exc, lst, als) ==
    [constructed |-> TRUE, raised |-> exc, entries |-> lst, aliases |-> als]

NotConstructed ==
    [constructed |-> FALSE, raised |-> NoError, entries |-> <<>>, aliases |-> NoAliases]

\* CacheHistory.__init__ and _load over the file content f.  json.load raises
\* JSONDecodeError on invalid text, which _load catches; on a scalar the
\* else branch calls data.get, an AttributeError that nothing catches.
CacheHistory_load_json(f) ==
    CASE f.kind = "missing" -> Constructed(NoError, <<>>, NoAliases)
      [] f.kind = "invalid" -> Constructed(NoError, <<>>, NoAliases)
      [] f.kind = "list" -> Constructed(NoError, f.entries, NoAliases)
      [] f.kind = "object" ->
            Constructed(NoError,
                        IF f.has_entries THEN f.entries ELSE <<>>,
                        IF f.has_aliases THEN f.aliases ELSE NoAliases)
      [] OTHER -> Constructed("AttributeError", <<>>, NoAliases)

IdleHfile ==
    /\ hfile = HistoryContent("missing", FALSE, <<>>, FALSE, NoAliases)
    /\ hstore = NotConstructed

----------------------------------------------------------------------------
(* One build object over its life: corrupt artifacts, load, persist_venv.  *)
(* The object's params is the identity its request hashes to now, so a     *)
(* change of the referenced file is a change of params.  The env key of a  *)
(* NixShell is saved and restored exactly as dev_env is and is left out.   *)

\* A JSON artifact whose text json.load cannot parse.
Unparseable == -2
CorruptJson ==
    [build_id |-> Unparseable, derivation |-> Unparseable, dev_env |-> Unparseable]

\* The outcome of an operation on a build object: the object, the world, and
\* the exception raised (NoError if none).
Outcome(build, w, exc, corrupt) ==
    [build |-> build, world |-> w, raised |-> exc, corrupt |-> corrupt]

\* build.build_id read and memoized
with_build_id(build) == [build EXCEPT !.build_id = build_id_of(build)]

\* NixBuild.load(json_path) on a file that exists: json.load raises on a
\* corrupt one, before the object is touched.
load_path(build, w, path) ==
    IF w.json_files[path] = CorruptJson
    THEN Outcome(build, w, "JSONDecodeError", TRUE)
    ELSE Outcome([load(build, w.json_files[path]) EXCEPT !.tools = 0],
                 w, NoError, FALSE)

\* cache._load(build, cache_key, history).  The entry is looked up (get reads
\* build.build_id) and touched; on a hit build.load reads the artifact, and
\* its JSONDecodeError is not caught: the touched timestamp is not saved.
cache_load_on(w, build, cache_key, history) ==
    LET w0 == cache_load_store(w, history)
        i == cache_load_find(w0, build, cache_key)
        w1 == Touch(w0, i)
        b1 == IF cache_key = None THEN with_build_id(build) ELSE build
        r == cache_load(w, b1, cache_key, history)
    IN  IF cache_load_hit(w1, i) /\ w1.json_files[w1.entries[i].json_path] = CorruptJson
        THEN Outcome(b1, w1, "JSONDecodeError", TRUE)
        ELSE Outcome([r.build EXCEPT !.tools = IF cache_load_hit(w1, i) THEN 0 ELSE @],
                     r.world, NoError, FALSE)

\* NixShell._load(data): every key of the document goes into __dict__.
shell_load(build, data) ==
    [build EXCEPT !.build_id = data.build_id,
                  !.derivation = data.derivation,
                  !.dev_env = data.dev_env,
                  !.tools = 0]

\* NixShell.persist_venv(name) over the file `json` at <name>.json: the
\* document is parsed first (json.load is not guarded), then its build_id is
\* compared with self.build_id; on a mismatch or without a file the object is
\* evaluated and saved.  The result has the file after the call as `json`.
persist_venv(build, json) ==
    IF json = CorruptJson
    THEN [build |-> build, json |-> json, raised |-> "JSONDecodeError", corrupt |-> TRUE]
    ELSE IF json # NoJson /\ json.build_id = build_id_of(build)
    THEN [build |-> shell_load(with_build_id(build), json), json |-> json,
          raised |-> NoError, corrupt |-> FALSE]
    ELSE [build |-> Evaluated(build), json |-> save_json(build),
          raised |-> NoError, corrupt |-> FALSE]

Persisted(done, build, json) == [done |-> done, build |-> build, json |-> json]
NotPersisted == Persisted(FALSE, NewBuild(None), NoJson)

IdleVenv ==
    /\ venv_json = NoJson
    /\ raised = NoError
    /\ computed_id = None
    /\ found_corrupt = FALSE
    /\ persist = NotPersisted

----------------------------------------------------------------------------
(* The build request (cli.NixBuildArgs) and NixBuild._get_build_id.        *)
(* Names, paths and file contents are strings; AllNames and AllPaths list  *)
(* them in the order Python compares str, which is the order sorted() puts *)
(* the (name, path) tuples of `include` in.                                *)

NumPaths == 3
MaxInclude == 2

AllPaths == <<"/a", "/b", "/c", "/d", "/e">>
AllNames == <<"mylib", "nixpkgs">>
Paths == {AllPaths[i] : i \in 1..Min(NumPaths, Len(AllPaths))}
Names == {AllNames[i] : i \in 1..Len(AllNames)}
Contents == {"x", "y"}

\* A key the params dict does not have.
Missing == "<missing>"

\* params: every NixBuildArgs key, Missing when absent; impure absent is
\* False and include absent is the empty tuple, as params.get reads them.
Request(ref, expr, file, installable, impure, include) ==
    [ref |-> ref, expr |-> expr, file |-> file, installable |-> installable,
     impure |-> impure, include |-> include]

EmptyRequest == Request(Missing, Missing, Missing, Missing, FALSE, <<>>)

IncludeEntries == {<<n, p>> : n \in Names, p \in Paths}
Includes == UNION {[1..n -> IncludeEntries] : n \in 0..MaxInclude}

\* params.get(key, default)
get_param(value, default) == IF value = Missing THEN default ELSE value

\* Position of v in the ordered list seq.
Rank(seq, v) == CHOOSE i \in 1..Len(seq) : seq[i] = v

\* sorted() as it would be if every tuple compared as equal: the order given.
IncludeLeq_given_order(e1, e2) == TRUE

\* (name1, path1) <= (name2, path2) as Python compares tuples of str
IncludeLeq(e1, e2) ==
    \/ Rank(AllNames, e1[1]) < Rank(AllNames, e2[1])
    \/ /\ e1[1] = e2[1]
       /\ Rank(AllPaths, e1[2]) <= Rank(AllPaths, e2[2])

RECURSIVE InsertInclude(_, _)
InsertInclude(lst, e) ==
    IF lst = <<>> THEN <<e>>
    ELSE IF IncludeLeq(Head(lst), e)
         THEN <<Head(lst)>> \o InsertInclude(Tail(lst), e)
         ELSE <<e>> \o lst

\* sorted(self.params.get("include", []))
RECURSIVE sorted(_)
sorted(include) ==
    IF include = <<>> THEN <<>>
    ELSE InsertInclude(sorted(SubSeq(include, 1, Len(include) - 1)),
                       include[Len(include)])

\* for name, path in ...: h.update(name.encode()); h.update(<contents of path>)
RECURSIVE include_bytes(_, _)
include_bytes(lst, fs) ==
    IF lst = <<>> THEN ""
    ELSE Head(lst)[1] \o fs[Head(lst)[2]] \o include_bytes(Tail(lst), fs)

\* The bytes fed to the hash, in order; updates concatenate.
hashed_bytes(pr, fs) ==
    (IF pr.impure THEN "impure" ELSE "pure")
    \o (IF pr.file # Missing THEN fs[pr.file] ELSE "")
    \o include_bytes(sorted(pr.include), fs)
    \o get_param(pr.installable, "no-installable")
    \o get_param(pr.ref, "no-ref")
    \o get_param(pr.expr, "no-expr")

\* hashlib.md5(...).hexdigest(): one digest per byte string, taken to be
\* collision-free.
hexdigest(bytes) == "md5(" \o bytes \o ")"

\* NixBuild._get_build_id
get_build_id(pr, fs) == hexdigest(hashed_bytes(pr, fs))

NotComputed == ""

\* A second request: how it differs from the first (`edit`), its params, the
\* files it is evaluated over and its digest.
Other(edit, pr, fs) ==
    [edit |-> edit, params |-> pr, files |-> fs, digest |-> get_build_id(pr, fs)]

NoOther ==
    [edit |-> "none", params |-> EmptyRequest, files |-> [p \in Paths |-> "x"],
     digest |-> NotComputed]

IdleRequest == params = EmptyRequest

IdleBuildId ==
    /\ files = [p \in Paths |-> "x"]
    /\ digest = NotComputed
    /\ other = NoOther

----------------------------------------------------------------------------
(* cli._parse_args and utils.format_nix.                                   *)

\* The expressions a request carries, and what nixfmt prints for each: the
\* canonical layout, which ends with a newline.
Exprs == {"{x}", "{ x }\n"}
nixfmt_output(expr) == "{ x }\n"

\* format_nix(expr): the output of nixfmt when the program is installed,
\* otherwise the expression as given.
format_nix(expr, fmt) == IF fmt = "installed" THEN nixfmt_output(expr) ELSE expr

\* The primary source: `if "ref" ... elif "expr" ... elif "file" ...`
source_args(pr, fmt) ==
    IF pr.ref # Missing THEN <<pr.ref>>
    ELSE IF pr.expr # Missing THEN <<"--expr", format_nix(pr.expr, fmt)>>
    ELSE IF pr.file # Missing
         THEN <<"-f", pr.file>>
              \o (IF pr.installable # Missing THEN <<pr.installable>> ELSE <<>>)
    ELSE <<>>

\* for key, value in params.get("include", []): args += ["-I", f"{key}={value}"]
RECURSIVE include_args(_)
include_args(include) ==
    IF include = <<>> THEN <<>>
    ELSE <<"-I", Head(include)[1] \o "=" \o Head(include)[2]>>
         \o include_args(Tail(include))

\* cli._parse_args(**params)
parse_args(pr, fmt) ==
    source_args(pr, fmt)
    \o (IF pr.impure THEN <<"--impure">> ELSE <<>>)
    \o include_args(pr.include)

\* _nix._parse_args(**params): the same statements, the expression passed
\* as given.
nix_parse_args(pr) ==
    (IF pr.ref # Missing THEN <<pr.ref>>
     ELSE IF pr.expr # Missing THEN <<"--expr", pr.expr>>
     ELSE IF pr.file # Missing
          THEN <<"-f", pr.file>>
               \o (IF pr.installable # Missing THEN <<pr.installable>> ELSE <<>>)
     ELSE <<>>)
    \o (IF pr.impure THEN <<"--impure">> ELSE <<>>)
    \o include_args(pr.include)

Parsed(cli_args, nix_args) == [parsed |-> TRUE, cli |-> cli_args, nix |-> nix_args]
NotParsed == [parsed |-> FALSE, cli |-> <<>>, nix |-> <<>>]

IdleArgs ==
    /\ nixfmt = "missing"
    /\ args = NotParsed

----------------------------------------------------------------------------
(* The external tool behind the facade (cli._cmd under                     *)
(* wrap_subprocess_error) and the memoized slots that call it.  One run of *)
(* a tool ends in an outcome: "exit" is a nonzero exit status, "garbage" is *)
(* exit status 0 with output that is not JSON (an outcome of the runs      *)
(* whose output is parsed), the others are exit status 0 with that output. *)
(* Logging is at its default level.                                        *)

\* An exception as the caller sees it: its type and, for a NixError, what it
\* carries.
Exception(type, original, pr, command) ==
    [type |-> type, original |-> original, params |-> pr, command |-> command]

NoException == Exception(NoError, NoError, EmptyRequest, <<>>)

\* An exception that reaches the caller as it was raised.
Unwrapped(type) == Exception(type, NoError, EmptyRequest, <<>>)

\* wrap_subprocess_error: a SubprocessError becomes NixError(e, params,
\* e.cmd), params being the NixBuildArgs keys of the keyword arguments.
NixError(original, pr, command) == Exception("NixError", original, pr, command)

Ran(exc, output) == [exc |-> exc, output |-> output]

\* cli._cmd(cmd, extra_args, **params): subprocess.check_output of
\* ["nix"] + cmds + _parse_args(**params) + extra_args.
cli_cmd(cmds, extra_args, pr, fmt, outcome) ==
    LET full_cmd == <<"nix">> \o cmds \o parse_args(pr, fmt) \o extra_args
    IN  IF outcome = "exit"
        THEN Ran(NixError("CalledProcessError", pr, full_cmd), "")
        ELSE Ran(NoException, outcome)

\* json.loads(output)
json_loads(ran, outcome) ==
    IF ran.exc = NoException /\ outcome = "garbage"
    THEN Ran(Unwrapped("JSONDecodeError"), "")
    ELSE ran

\* The requests cli.current_system and cli.impure_nixpkgs_path evaluate.
CurrentSystemRequest ==
    Request(Missing, "builtins.currentSystem", Missing, Missing, TRUE, <<>>)
NixpkgsPathRequest == Request(Missing, "<nixpkgs>", Missing, Missing, TRUE, <<>>)

Slots ==
    {"store_paths", "derivation", "dev_env", "env", "current_system",
     "impure_nixpkgs_path"}

\* The tool run behind each slot but env, and what is made of its output.
compute(slot, pr, fmt, outcome) ==
    CASE slot = "store_paths" ->
            cli_cmd(<<"build">>, <<"--no-link", "--print-out-paths">>, pr, fmt, outcome)
      [] slot = "derivation" ->
            json_loads(cli_cmd(<<"derivation", "show">>, <<>>, pr, fmt, outcome), outcome)
      [] slot = "dev_env" ->
            cli_cmd(<<"print-dev-env">>, <<>>, pr, fmt, outcome)
      [] slot = "current_system" ->
            cli_cmd(<<"eval">>, <<"--raw">>, CurrentSystemRequest, fmt, outcome)
      [] slot = "impure_nixpkgs_path" ->
            cli_cmd(<<"eval">>, <<"--raw">>, NixpkgsPathRequest, fmt, outcome)

\* The outcomes of the tool run behind each slot.  nix build can print other
\* store paths on a later run; derivation show and the interpreter run of env
\* print JSON.
ToolOutcomes(slot) ==
    CASE slot = "store_paths" -> {"out1", "out2", "exit"}
      [] slot \in {"derivation", "env"} -> {"out1", "exit", "garbage"}
      [] OTHER -> {"out1", "exit"}

\* The interpreter run of NixShell.env: subprocess.check_output is called
\* directly, then json.loads.
env_run(outcome) ==
    IF outcome = "exit" THEN Ran(Unwrapped("CalledProcessError"), "")
    ELSE json_loads(Ran(NoException, outcome), outcome)

NotCached == ""

NoSlots ==
    [memo |-> [s \in Slots |-> NotCached],
     computed |-> [s \in Slots |-> 0],
     first |-> [s \in Slots |-> NotCached]]

\* The slot is filled by a computation that succeeded.  `computed` counts
\* them, up to two.
Filled(st, slot, value) ==
    [memo |-> [st.memo EXCEPT ![slot] = value],
     computed |-> [st.computed EXCEPT ![slot] = Min(@ + 1, 2)],
     first |-> [st.first EXCEPT ![slot] = IF @ = NotCached THEN value ELSE @]]

\* A memoized read as it would be if the stored value were never found.
cached_never(st, slot) == FALSE

\* cached_property / functools.cache / `self._store_paths is None`
cached(st, slot) == st.memo[slot] # NotCached

\* What an access did: the slots after it, the exception and the value it
\* returned, and the number of tool runs it made.
Accessed(st, exc, value, runs) ==
    [st |-> st, exc |-> exc, value |-> value, runs |-> runs]

\* Reading a memoized slot: the stored value, or the computation, whose
\* value is stored only when it succeeds.
access(st, slot, ran) ==
    IF cached(st, slot) THEN Accessed(st, NoException, st.memo[slot], 0)
    ELSE IF ran.exc # NoException THEN Accessed(st, ran.exc, "", 1)
    ELSE Accessed(Filled(st, slot, ran.output), NoException, ran.output, 1)

\* NixShell.env: _process_args reads self.dev_env, then self.builder (the
\* derivation), then the interpreter runs under the builder.
env_access(st, pr, fmt, o_dev, o_drv, o_run) ==
    IF cached(st, "env") THEN Accessed(st, NoException, st.memo["env"], 0)
    ELSE LET a == access(st, "dev_env", compute("dev_env", pr, fmt, o_dev)) IN
         IF a.exc # NoException THEN a
         ELSE LET b == access(a.st, "derivation", compute("derivation", pr, fmt, o_drv)) IN
         IF b.exc # NoException THEN Accessed(b.st, b.exc, "", a.runs + b.runs)
         ELSE LET c == access(b.st, "env", env_run(o_run))
              IN  Accessed(c.st, c.exc, c.value, a.runs + b.runs + c.runs)

\* NixBuild.build(): always runs the tool and overwrites _store_paths.
build(st, pr, fmt, outcome) ==
    LET ran == compute("store_paths", pr, fmt, outcome)
    IN  IF ran.exc # NoException THEN Accessed(st, ran.exc, "", 1)
        ELSE Accessed([st EXCEPT !.memo["store_paths"] = ran.output],
                      NoException, ran.output, 1)

\* The latest operation: its name, whether its slot was filled before, and
\* what it did.
Result(op, was_cached, acc) ==
    [op |-> op, was_cached |-> was_cached, exc |-> acc.exc, value |-> acc.value,
     runs |-> acc.runs]

NoResult == Result("none", FALSE, Accessed(NoSlots, NoException, "", 0))

IdleMemo ==
    /\ slots = NoSlots
    /\ result = NoResult

----------------------------------------------------------------------------
(* NixShell.activate: the captured environment of the shell merged into    *)
(* os.environ.  An environment maps each name to its value, or to Absent.  *)

MaxActivations == 2

EnvNames == <<"PATH", "PYTHONPATH", "HOME", "CC">>
Absent == "<absent>"

LIST_LIKE_VARS ==
    {"PATH", "LD_LIBRARY_PATH", "PYTHONPATH", "CLASSPATH", "PKG_CONFIG_PATH",
     "MANPATH", "INFOPATH", "XDG_DATA_DIRS", "XDG_CONFIG_DIRS", "CDPATH",
     "FPATH", "MAILPATH"}

\* os.pathsep of the platforms nix runs on (Linux, macOS)
os_pathsep == ":"

NoEnviron == [k \in {EnvNames[i] : i \in 1..Len(EnvNames)} |-> Absent]

\* os.environ[key] = value
setenv(environ, key, value) == [environ EXCEPT ![key] = value]

\* One turn of the loop with every variable overwritten.
activate_item_overwrite(environ, key, value) == setenv(environ, key, value)

\* One turn of the loop of activate over self.env.items()
activate_item(environ, key, value) ==
    IF key \in LIST_LIKE_VARS /\ environ[key] # Absent
    THEN setenv(environ, key, value \o ":" \o environ[key])
    ELSE setenv(environ, key, value)

\* for key, value in self.env.items(): ...   (the names from the i-th on)
RECURSIVE activate_from(_, _, _)
activate_from(i, env, environ) ==
    IF i > Len(EnvNames) THEN environ
    ELSE IF env[EnvNames[i]] = Absent THEN activate_from(i + 1, env, environ)
    ELSE activate_from(i + 1, env,
                       activate_item(environ, EnvNames[i], env[EnvNames[i]]))

activate(env, environ) == activate_from(1, env, environ)

Activations(count, before, latest) ==
    [count |-> count, before |-> before, latest |-> latest]

NoActivations == Activations(0, NoEnviron, FALSE)

IdleActivate ==
    /\ os_environ = NoEnviron
    /\ shell_env = NoEnviron
    /\ act = NoActivations

----------------------------------------------------------------------------
(* The subprocess wrappers of NixShell: run, check_output, Popen, call,    *)
(* check_call, getoutput and getstatusoutput, all through _exec and        *)
(* _process_args.  The shell's dev_env and derivation slots are filled.    *)

\* self.dev_env and self.builder (self.derivation["builder"])
ShellDevEnv == "export PATH=/nix/store/bin"
ShellBuilder == "/nix/store/bash"

Primitives ==
    {"run", "check_output", "Popen", "call", "check_call", "getoutput",
     "getstatusoutput"}

\* subprocess.run, check_output, Popen, call and check_call pass their keyword
\* arguments on to Popen, which has env; subprocess.getoutput(cmd, *,
\* encoding=None, errors=None) and getstatusoutput have no env parameter.
accepts_env(primitive) == primitive \notin {"getoutput", "getstatusoutput"}

\* A command: an argument list or a string.
ListCommand(argv) == [is_list |-> TRUE, argv |-> argv, text |-> ""]
StrCommand(text) == [is_list |-> FALSE, argv |-> <<>>, text |-> text]

Commands ==
    {ListCommand(<<"echo", "a b">>), StrCommand("echo $PATH | wc")}

\* shlex.quote on the arguments above: an argument of safe characters is
\* left as it is, any other is put between single quotes.
shlex_quote(arg) == IF arg = "a b" THEN "'a b'" ELSE arg

\* shlex.join(cmd): " ".join(quote(arg) for arg in cmd)
RECURSIVE shlex_join(_)
shlex_join(argv) ==
    IF argv = <<>> THEN ""
    ELSE IF Len(argv) = 1 THEN shlex_quote(argv[1])
    ELSE shlex_quote(argv[1]) \o " " \o shlex_join(Tail(argv))

\* The env keyword argument a caller passes, when it passes one.
GivenEnv == [NoEnviron EXCEPT !["HOME"] = "/home/u"]

\* _process_args with the process environment as the default env.
process_args_inherit(cmd, impure_env, env_given, environ) ==
    [new_cmd |-> <<ShellBuilder, "-c",
                   ShellDevEnv \o "\n"
                   \o (IF cmd.is_list THEN shlex_join(cmd.argv) ELSE cmd.text)>>,
     env |-> IF env_given THEN GivenEnv ELSE environ]

\* _process_args(cmd, impure_env, **kwargs): the positional arguments and the
\* env keyword argument for the primitive.
process_args(cmd, impure_env, env_given, environ) ==
    LET default_env == IF impure_env THEN environ ELSE NoEnviron
        script == ShellDevEnv \o "\n"
                  \o (IF cmd.is_list THEN shlex_join(cmd.argv) ELSE cmd.text)
    IN  [new_cmd |-> <<ShellBuilder, "-c", script>>,
         env |-> IF env_given THEN GivenEnv ELSE default_env]

\* What the primitive was called with, or the exception the call raised.
Invocation(exc, new_cmd, env) == [exc |-> exc, cmd |-> new_cmd, env |-> env]

\* _exec(f, cmd, **kwargs): f(new_cmd, **new_kwargs), env always among them.
exec(primitive, cmd, impure_env, env_given, environ) ==
    LET a == process_args(cmd, impure_env, env_given, environ)
    IN  IF accepts_env(primitive) THEN Invocation(NoError, a.new_cmd, a.env)
        ELSE Invocation("TypeError", <<>>, NoEnviron)

\* One call of a wrapper: what the caller passed, os.environ at the time,
\* and the invocation made.
Call(primitive, cmd, impure_env, env_given, environ) ==
    [primitive |-> primitive, cmd |-> cmd, impure_env |-> impure_env,
     env_given |-> env_given, environ |-> environ,
     invoked |-> exec(primitive, cmd, impure_env, env_given, environ)]

NoCalls == <<>>

IdleExec == calls = NoCalls

----------------------------------------------------------------------------
(* Recency of use, and a push during which the external tool fails.        *)

RecencyTime == MaxTime + 2

\* When each key was last pushed or found by lookup (0: never), whether that
\* use was a lookup, and the identities retained before the latest push.
Recency(used, looked, before, was_push) ==
    [used |-> used, looked |-> looked, before |-> before, was_push |-> was_push]

NoRecency ==
    Recency([k \in CacheKeys |-> 0], [k \in CacheKeys |-> FALSE], {}, FALSE)

\* CacheHistory.push when the external tool fails.  save_json evaluates the
\* cached properties before it opens the file, so a failure there writes
\* nothing; save_link runs `nix build --out-link` after save_json has written
\* <file_key>.json.  The entry is made only after both.
push_fails(w, nix_build, cache_key, stage) ==
    LET file_key == file_key_of(build_id_of(nix_build), cache_key)
    IN  IF stage = "save_json" THEN w
        ELSE [w EXCEPT !.json_files = [@ EXCEPT ![file_key] = save_json(nix_build)]]

Failed(done, before, after) == [done |-> done, before |-> before, after |-> after]

\* An empty cache root and a store object over it.
IdleStoreWorld ==
    [entries |-> <<>>, aliases |-> NoAliases, max_history |-> 1,
     history_file |-> [exists |-> FALSE, entries |-> <<>>, aliases |-> NoAliases],
     json_files |-> [k \in CacheKeys |-> NoJson],
     profile_files |-> [k \in CacheKeys |-> None], now |-> 1]

NotFailed == Failed(FALSE, IdleStoreWorld, IdleStoreWorld)

IdlePush ==
    /\ recency = NoRecency
    /\ failed = NotFailed

----------------------------------------------------------------------------
(* dsl.core.dumps on a string.  A string is the sequence of its            *)
(* characters.                                                             *)

MaxStrLen == 3

Chars == {"a", " ", "\n", "\""}

Strings == UNION {[1..n -> Chars] : n \in 0..MaxStrLen}

\* _indent = "  "
indent_unit == <<" ", " ">>

\* str.splitlines(True): the lines, each with its line end.
RECURSIVE splitlines(_)
splitlines(s) ==
    IF s = <<>> THEN <<>>
    ELSE IF \E i \in 1..Len(s) : s[i] = "\n"
    THEN LET i == CHOOSE i \in 1..Len(s) :
                    /\ s[i] = "\n"
                    /\ \A j \in 1..(i - 1) : s[j] # "\n"
         IN  <<SubSeq(s, 1, i)>> \o splitlines(SubSeq(s, i + 1, Len(s)))
    ELSE <<s>>

\* The default predicate of textwrap.indent: line.strip() is not empty.
has_text(line) == \E i \in 1..Len(line) : line[i] \notin {" ", "\n"}

RECURSIVE join_lines(_)
join_lines(lines) ==
    IF lines = <<>> THEN <<>> ELSE Head(lines) \o join_lines(Tail(lines))

\* textwrap.indent(s, prefix): the prefix goes before the lines that do not
\* consist solely of whitespace.
textwrap_indent(s, prefix) ==
    join_lines([i \in 1..Len(splitlines(s)) |->
                  IF has_text(splitlines(s)[i]) THEN prefix \o splitlines(s)[i]
                  ELSE splitlines(s)[i]])

\* _str(s)
str(s) ==
    IF (\E i \in 1..Len(s) : s[i] = "\n") \/ (\E i \in 1..Len(s) : s[i] = "\"")
    THEN <<"'", "'", "\n">> \o textwrap_indent(s, indent_unit) \o <<"\n", "'", "'">>
    ELSE <<"\"">> \o s \o <<"\"">>

\* dumps(n) for a str n: `case str(): return _str(n)`
dumps(n) == str(n)

NotDumped == <<"<not dumped>">>

IdleDumps ==
    /\ nix_str = <<>>
    /\ dumped = NotDumped

----------------------------------------------------------------------------
(* Two processes in cache._load on the same cache root.  Each has its own  *)
(* CacheHistory object; history.json and the artifact files are shared.    *)
(* No call takes a lock, so the processes interleave between file          *)
(* operations.                                                             *)

Procs == {1, 2}

\* A process: where it is in cache._load, its build, and the entries and
\* aliases of the CacheHistory object it constructed.
Process(pc, b, lst, als) == [pc |-> pc, b |-> b, entries |-> lst, aliases |-> als]

\* The world as process p sees it: the shared files, its own store object.
WorldOf(p) ==
    [entries |-> proc[p].entries, aliases |-> proc[p].aliases,
     max_history |-> max_history, history_file |-> history_file,
     json_files |-> json_files, profile_files |-> profile_files, now |-> now]

\* push as it would be if it loaded history.json again before changing it.
push_entries_reloading(w, nix_build, cache_key) ==
    LET w0 == CacheHistory_init(w, w.max_history)
        b == build_id_of(nix_build)
        file_key == file_key_of(b, cache_key)
        entry == [build_id |-> b, timestamp |-> w0.now,
                  json_path |-> file_key, profile_path |-> file_key]
        sorted_entries == SortDesc(Append(RemoveExisting(w0.entries, b), entry))
        w1 == [w0 EXCEPT !.now = @ + 1,
                         !.aliases = UpdateAliases(@, cache_key, b),
                         !.entries = KeptEntries(sorted_entries, w0.max_history)]
    IN  CacheHistory_save(CleanupOld(w1, OldEntries(sorted_entries, w0.max_history)))

\* CacheHistory.push after save_json and save_link have returned: the entry
\* is made and put into the object's list, the list is sorted and cut to
\* max_history, the files of the entries cut off are unlinked and the list
\* is written to history.json.
push_entries(w, nix_build, cache_key) ==
    LET b == build_id_of(nix_build)
        file_key == file_key_of(b, cache_key)
        entry == [build_id |-> b, timestamp |-> w.now,
                  json_path |-> file_key, profile_path |-> file_key]
        sorted_entries == SortDesc(Append(RemoveExisting(w.entries, b), entry))
        w1 == [w EXCEPT !.now = @ + 1,
                        !.aliases = UpdateAliases(@, cache_key, b),
                        !.entries = KeptEntries(sorted_entries, w.max_history)]
    IN  CacheHistory_save(CleanupOld(w1, OldEntries(sorted_entries, w.max_history)))

\* The order of the file operations so far: whether the first write came
\* after both processes had read history.json, which process wrote
\* history.json last, and which processes missed and wrote artifacts.
Race(first_write, last_writer, missed) ==
    [first_write |-> first_write, last_writer |-> last_writer, missed |-> missed]

NoRace == Race("none", 0, {})

\* The first write of a run happens now, by a process other than those still
\* at the start.
AfterWrite(p, saves) ==
    [race EXCEPT !.first_write =
                    IF @ # "none" THEN @
                    ELSE IF \A q \in Procs : proc[q].pc # "start"
                         THEN "after_reads" ELSE "before_reads",
                 !.last_writer = IF saves THEN p ELSE @]

IdleRace ==
    /\ proc = [p \in Procs |-> Process("idle", None, <<>>, NoAliases)]
    /\ race = NoRace

----------------------------------------------------------------------------
(* The state machine.  The pure queries peek() and get("<key>") are the    *)
(* operators peek and get_str; every other operation is an action.  The    *)
(* caller holds the build object cache.load returned (req) until its next  *)
(* call on the store.                                                      *)

NoRequest == NewBuild(None)

SetWorld(w) ==
    /\ entries' = w.entries
    /\ aliases' = w.aliases
    /\ max_history' = w.max_history
    /\ history_file' = w.history_file
    /\ json_files' = w.json_files
    /\ profile_files' = w.profile_files
    /\ now' = w.now

Init ==
    /\ entries = <<>>
    /\ aliases = NoAliases
    /\ max_history \in Histories
    /\ history_file = [exists |-> FALSE, entries |-> <<>>, aliases |-> NoAliases]
    /\ json_files = [k \in CacheKeys |-> NoJson]
    /\ profile_files = [k \in CacheKeys |-> None]
    /\ now = 1
    /\ req = NoRequest
    /\ call = NoCall
    /\ pushed = NoPushes
    /\ clean = TRUE
    /\ bound = {}
    /\ IdleHfile
    /\ IdleVenv
    /\ IdleRequest
    /\ IdleBuildId
    /\ IdleArgs
    /\ IdleMemo
    /\ IdleActivate
    /\ IdleExec
    /\ IdlePush
    /\ IdleDumps
    /\ IdleRace

\* history.push(NixBuild(b), cache_key) on the live store
Push(b, cache_key) ==
    /\ now <= MaxTime
    /\ LET w == push(World, NewBuild(b), cache_key)
       IN  /\ SetWorld(w)
           /\ clean' = CleanPush(b, cache_key)
           /\ pushed' = IF CleanPush(b, cache_key)
                        THEN [pushed EXCEPT ![b] = [at |-> now,
                                                    key |-> file_key_of(b, cache_key)]]
                        ELSE NoPushes
           /\ bound' = BoundAfterPush(w.entries, b, cache_key)
    /\ req' = NoRequest
    /\ call' = NoCall
    /\ UNCHANGED notStore

\* history.get(NixBuild(b)) on the live store
Get(b) ==
    LET i == get(World, NewBuild(b))
        w == Touch(World, i)
    IN  /\ i # 0 => now <= MaxTime
        /\ SetWorld(w)
        /\ clean' = (clean /\ i = 0)
        /\ pushed' = IF clean /\ i = 0 THEN pushed ELSE NoPushes
        /\ bound' = BoundAfter(w.entries)
        /\ req' = NoRequest
        /\ call' = NoCall
        /\ UNCHANGED notStore

\* history.lookup("<key>") on the live store
Lookup(key) ==
    LET i == lookup(World, key)
        w == Touch(World, i)
    IN  /\ i # 0 => now <= MaxTime
        /\ SetWorld(w)
        /\ clean' = (clean /\ i = 0)
        /\ pushed' = IF clean /\ i = 0 THEN pushed ELSE NoPushes
        /\ bound' = BoundAfter(w.entries)
        /\ req' = NoRequest
        /\ call' = NoCall
        /\ UNCHANGED notStore

\* CacheHistory(history_file, n): a new store object replaces the live one
Construct(n) ==
    LET w == CacheHistory_init(World, n)
    IN  /\ SetWorld(w)
        /\ clean' = FALSE
        /\ pushed' = NoPushes
        /\ bound' = BoundAfter(w.entries)
        /\ req' = NoRequest
        /\ call' = NoCall
        /\ UNCHANGED notStore

\* cache.load(NixBuild(b), cache_key=cache_key, history=n); the store object
\* it constructs becomes the live one
CacheLoad(b, cache_key, n) ==
    LET r == cache_load(World, NewBuild(b), cache_key, n)
    IN  /\ now + r.ticks <= MaxTime + 1
        /\ SetWorld(r.world)
        /\ req' = r.build
        /\ call' = [had_entry |-> HasCached(b), found |-> FindsCached(b, cache_key)]
        /\ clean' = FALSE
        /\ pushed' = NoPushes
        /\ bound' = IF r.build.from_cache THEN BoundAfter(r.world.entries)
                    ELSE BoundAfterPush(r.world.entries, b, cache_key)
        /\ UNCHANGED notStore

\* build.derivation on the build cache.load returned
ReadDerivation ==
    /\ req.params # None
    /\ req' = [req EXCEPT !.derivation = derivation_of(req),
                          !.tools = derivation_tools(req)]
    /\ UNCHANGED <<entries, aliases, max_history, history_file, json_files,
                   profile_files, now, call, pushed, clean, bound>>
    /\ UNCHANGED notStore

\* build.dev_env on the build cache.load returned
ReadDevEnv ==
    /\ req.params # None
    /\ req' = [req EXCEPT !.dev_env = dev_env_of(req),
                          !.tools = dev_env_tools(req)]
    /\ UNCHANGED <<entries, aliases, max_history, history_file, json_files,
                   profile_files, now, call, pushed, clean, bound>>
    /\ UNCHANGED notStore

Next ==
    \/ \E b \in BuildIds, k \in AliasKeys \cup {None} : Push(b, k)
    \/ \E b \in BuildIds : Get(b)
    \/ \E k \in CacheKeys : Lookup(k)
    \/ \E n \in Histories : Construct(n)
    \/ \E b \in BuildIds, k \in AliasKeys \cup {None}, n \in Histories : CacheLoad(b, k, n)
    \/ ReadDerivation
    \/ ReadDevEnv

Spec == Init /\ [][Next]_vars

----------------------------------------------------------------------------
(* SpecHistoryFile: a store is constructed over each history file content. *)

IdleStore ==
    /\ entries = <<>>
    /\ aliases = NoAliases
    /\ max_history = 1
    /\ history_file = [exists |-> FALSE, entries |-> <<>>, aliases |-> NoAliases]
    /\ json_files = [k \in CacheKeys |-> NoJson]
    /\ profile_files = [k \in CacheKeys |-> None]
    /\ now = 1
    /\ req = NoRequest
    /\ call = NoCall
    /\ pushed = NoPushes
    /\ clean = TRUE
    /\ bound = {}

InitHistoryFile ==
    /\ hfile \in HistoryContents
    /\ hstore = NotConstructed
    /\ IdleStore
    /\ IdleVenv
    /\ IdleRequest
    /\ IdleBuildId
    /\ IdleArgs
    /\ IdleMemo
    /\ IdleActivate
    /\ IdleExec
    /\ IdlePush
    /\ IdleDumps
    /\ IdleRace

\* CacheHistory(history_file, max_history)
ConstructOverFile ==
    /\ ~hstore.constructed
    /\ hstore' = CacheHistory_load_json(hfile)
    /\ UNCHANGED hfile
    /\ UNCHANGED notHfile

NextHistoryFile == ConstructOverFile

SpecHistoryFile == InitHistoryFile /\ [][NextHistoryFile]_vars

----------------------------------------------------------------------------
(* SpecBuildId: the identity of a request is computed, then the identity   *)
(* of a second request that differs from it by one edit.                   *)

InitBuildId ==
    /\ params \in {Request(Missing, Missing, f, Missing, FALSE, inc) :
                      f \in {Missing, AllPaths[1]}, inc \in Includes}
    /\ files \in [Paths -> Contents]
    /\ digest = NotComputed
    /\ other = NoOther
    /\ IdleStore
    /\ IdleHfile
    /\ IdleVenv
    /\ IdleArgs
    /\ IdleMemo
    /\ IdleActivate
    /\ IdleExec
    /\ IdlePush
    /\ IdleDumps
    /\ IdleRace

\* NixBuild(params).build_id
GetBuildId ==
    /\ digest = NotComputed
    /\ digest' = get_build_id(params, files)
    /\ UNCHANGED <<params, files, other>>
    /\ UNCHANGED notBuildId

\* The second request is made and its build_id computed.
SecondRequest(edit, pr, fs) ==
    /\ digest # NotComputed
    /\ other = NoOther
    /\ other' = Other(edit, pr, fs)
    /\ UNCHANGED <<params, files, digest>>
    /\ UNCHANGED notBuildId

Swap(lst, i, j) == [lst EXCEPT ![i] = lst[j], ![j] = lst[i]]

\* ... with two include entries given in the other order
SwapInclude(i, j) ==
    /\ i < j
    /\ j <= Len(params.include)
    /\ params.include[i] # params.include[j]
    /\ SecondRequest("order", [params EXCEPT !.include = Swap(@, i, j)], files)

\* ... with another path in one include entry
SetIncludePath(i, p) ==
    /\ i <= Len(params.include)
    /\ p # params.include[i][2]
    /\ SecondRequest("include_path", [params EXCEPT !.include[i][2] = p], files)

\* ... with another name in one include entry
SetIncludeName(i, n) ==
    /\ i <= Len(params.include)
    /\ n # params.include[i][1]
    /\ SecondRequest("include_name", [params EXCEPT !.include[i][1] = n], files)

\* ... with the same params after a file on disk has been rewritten
WriteFile(p, c) ==
    /\ c # files[p]
    /\ SecondRequest(IF p = params.file THEN "file" ELSE "other_file",
                     params, [files EXCEPT ![p] = c])

\* ... with another file as the referenced file
SetFile(p) ==
    /\ params.file # Missing
    /\ p # params.file
    /\ SecondRequest("file_path", [params EXCEPT !.file = p], files)

\* ... with the impure flag the other way
ToggleImpure ==
    SecondRequest("impure", [params EXCEPT !.impure = ~@], files)

\* ... with a ref, an expr or an installable added
SetSource(key) ==
    SecondRequest(key, [params EXCEPT ![key] = "s"], files)

NextBuildId ==
    \/ GetBuildId
    \/ \E i, j \in 1..MaxInclude : SwapInclude(i, j)
    \/ \E i \in 1..MaxInclude, p \in Paths : SetIncludePath(i, p)
    \/ \E i \in 1..MaxInclude, n \in Names : SetIncludeName(i, n)
    \/ \E p \in Paths, c \in Contents : WriteFile(p, c)
    \/ \E p \in Paths : SetFile(p)
    \/ ToggleImpure
    \/ \E key \in {"ref", "expr", "installable"} : SetSource(key)

SpecBuildId == InitBuildId /\ [][NextBuildId]_vars

----------------------------------------------------------------------------
(* SpecParseArgs: the argument list of every request, with and without     *)
(* nixfmt installed.                                                       *)

ArgRequests ==
    {Request(r, e, f, i, imp, inc) :
        r \in {Missing, "github:nixos/nixpkgs"}, e \in {Missing} \cup Exprs,
        f \in {Missing, "shell.nix"}, i \in {Missing, "mypackage"},
        imp \in BOOLEAN, inc \in Includes}

InitParseArgs ==
    /\ params \in ArgRequests
    /\ nixfmt \in {"missing", "installed"}
    /\ args = NotParsed
    /\ IdleStore
    /\ IdleHfile
    /\ IdleVenv
    /\ IdleBuildId
    /\ IdleMemo
    /\ IdleActivate
    /\ IdleExec
    /\ IdlePush
    /\ IdleDumps
    /\ IdleRace

\* cli._parse_args(**params) and _nix._parse_args(**params)
ParseArgs ==
    /\ ~args.parsed
    /\ args' = Parsed(parse_args(params, nixfmt), nix_parse_args(params))
    /\ UNCHANGED <<params, nixfmt>>
    /\ UNCHANGED notParseArgs

NextParseArgs == ParseArgs

SpecParseArgs == InitParseArgs /\ [][NextParseArgs]_vars

----------------------------------------------------------------------------
(* SpecMemo: one NixShell over a request, its memoized slots read in any   *)
(* order, every tool run ending in any of its outcomes.                    *)

MemoRequests ==
    {EmptyRequest,
     Request(Missing, Missing, Missing, Missing, TRUE, <<<<"nixpkgs", "/a">>>>),
     Request(Missing, "{x}", Missing, Missing, FALSE, <<>>)}

InitMemo ==
    /\ params \in MemoRequests
    /\ IdleArgs
    /\ slots = NoSlots
    /\ result = NoResult
    /\ IdleActivate
    /\ IdleStore
    /\ IdleHfile
    /\ IdleVenv
    /\ IdleBuildId
    /\ IdleExec
    /\ IdlePush
    /\ IdleDumps
    /\ IdleRace

\* shell.store_paths(), shell.derivation, shell.dev_env, cli.current_system()
\* or cli.impure_nixpkgs_path()
Access(slot, outcome) ==
    LET acc == access(slots, slot, compute(slot, params, nixfmt, outcome))
    IN  /\ slots' = acc.st
        /\ result' = Result(slot, cached(slots, slot), acc)
        /\ UNCHANGED <<params, nixfmt>>
        /\ UNCHANGED notMemo

\* shell.env
AccessEnv(o_dev, o_drv, o_run) ==
    LET acc == env_access(slots, params, nixfmt, o_dev, o_drv, o_run)
    IN  /\ slots' = acc.st
        /\ result' = Result("env", cached(slots, "env"), acc)
        /\ UNCHANGED <<params, nixfmt>>
        /\ UNCHANGED notMemo

\* shell.build()
Build(outcome) ==
    LET acc == build(slots, params, nixfmt, outcome)
    IN  /\ slots' = acc.st
        /\ result' = Result("build", FALSE, acc)
        /\ UNCHANGED <<params, nixfmt>>
        /\ UNCHANGED notMemo

NextMemo ==
    \/ \E slot \in Slots \ {"env"} : \E o \in ToolOutcomes(slot) : Access(slot, o)
    \/ \E o_dev \in ToolOutcomes("dev_env"), o_drv \in ToolOutcomes("derivation"),
          o_run \in ToolOutcomes("env") : AccessEnv(o_dev, o_drv, o_run)
    \/ \E o \in ToolOutcomes("store_paths") : Build(o)

SpecMemo == InitMemo /\ [][NextMemo]_vars

----------------------------------------------------------------------------
(* SpecActivate: a process with any environment activates a shell with any *)
(* captured environment, again and again, removing variables in between.   *)

InitActivate ==
    /\ os_environ \in [DOMAIN NoEnviron -> {Absent, "/usr/bin"}]
    /\ shell_env \in [DOMAIN NoEnviron -> {Absent, "/nix/store/bin"}]
    /\ act = NoActivations
    /\ IdleStore
    /\ IdleHfile
    /\ IdleVenv
    /\ IdleRequest
    /\ IdleBuildId
    /\ IdleArgs
    /\ IdleMemo
    /\ IdleExec
    /\ IdlePush
    /\ IdleDumps
    /\ IdleRace

\* shell.activate()
Activate ==
    /\ act.count < MaxActivations
    /\ os_environ' = activate(shell_env, os_environ)
    /\ act' = Activations(act.count + 1, os_environ, TRUE)
    /\ UNCHANGED shell_env
    /\ UNCHANGED notActivate

\* del os.environ[key] by the host program
Unsetenv(key) ==
    /\ act.count > 0
    /\ os_environ[key] # Absent
    /\ os_environ' = setenv(os_environ, key, Absent)
    /\ act' = [act EXCEPT !.latest = FALSE]
    /\ UNCHANGED shell_env
    /\ UNCHANGED notActivate

NextActivate ==
    \/ Activate
    \/ \E key \in DOMAIN NoEnviron : Unsetenv(key)

SpecActivate == InitActivate /\ [][NextActivate]_vars

----------------------------------------------------------------------------
(* SpecVenv: the caller keeps one build object (req) and uses it again and *)
(* again, while other build objects fill the store and files get corrupted.*)

InitVenv ==
    /\ entries = <<>>
    /\ aliases = NoAliases
    /\ max_history \in Histories
    /\ history_file = [exists |-> FALSE, entries |-> <<>>, aliases |-> NoAliases]
    /\ json_files = [k \in CacheKeys |-> NoJson]
    /\ profile_files = [k \in CacheKeys |-> None]
    /\ now = 1
    /\ req \in {NewBuild(b) : b \in BuildIds}
    /\ call = NoCall
    /\ pushed = NoPushes
    /\ clean = TRUE
    /\ bound = {}
    /\ IdleVenv
    /\ IdleHfile
    /\ IdleRequest
    /\ IdleBuildId
    /\ IdleArgs
    /\ IdleMemo
    /\ IdleActivate
    /\ IdleExec
    /\ IdlePush
    /\ IdleDumps
    /\ IdleRace

\* The history variable after an operation that left the object as `build`:
\* the first value the build_id slot got from _get_build_id.  `ran` says that
\* the operation read build.build_id.
ComputedAfter(ran) ==
    IF computed_id = None /\ req.build_id = None /\ ran
    THEN req.params ELSE computed_id

\* build.build_id
VenvReadBuildId ==
    /\ req' = with_build_id(req)
    /\ computed_id' = ComputedAfter(TRUE)
    /\ raised' = NoError
    /\ found_corrupt' = FALSE
    /\ UNCHANGED <<entries, aliases, max_history, history_file, json_files,
                   profile_files, now, venv_json>>
    /\ persist' = NotPersisted
    /\ UNCHANGED notVenv

\* The file the request refers to is rewritten: the request now hashes to b.
VenvWriteFile(b) ==
    /\ b # req.params
    /\ req' = [req EXCEPT !.params = b]
    /\ raised' = NoError
    /\ found_corrupt' = FALSE
    /\ UNCHANGED <<entries, aliases, max_history, history_file, json_files,
                   profile_files, now, venv_json, computed_id>>
    /\ persist' = NotPersisted
    /\ UNCHANGED notVenv

\* cache.load(NixBuild(b), cache_key=cache_key, history=n) by another caller
OtherCacheLoad(b, cache_key, n) ==
    LET r == cache_load_on(World, NewBuild(b), cache_key, n)
    IN  /\ now + 2 <= MaxTime + 1
        /\ SetWorld(r.world)
        /\ UNCHANGED <<req, venv_json, raised, computed_id, found_corrupt>>
        /\ persist' = NotPersisted
        /\ UNCHANGED notVenv

\* The artifact <key>.json is damaged (a torn write, a full disk).
CorruptArtifact(k) ==
    /\ json_files[k] \notin {NoJson, CorruptJson}
    /\ json_files' = [json_files EXCEPT ![k] = CorruptJson]
    /\ UNCHANGED <<entries, aliases, max_history, history_file, profile_files, now,
                   req, venv_json, raised, computed_id, found_corrupt>>
    /\ persist' = NotPersisted
    /\ UNCHANGED notVenv

\* The file <name>.json of persist_venv is damaged.
CorruptVenvJson ==
    /\ venv_json \notin {NoJson, CorruptJson}
    /\ venv_json' = CorruptJson
    /\ UNCHANGED <<entries, aliases, max_history, history_file, json_files,
                   profile_files, now, req, raised, computed_id, found_corrupt>>
    /\ persist' = NotPersisted
    /\ UNCHANGED notVenv

\* req.load(<key>.json)
VenvLoad(k) ==
    /\ json_exists(World, k)
    /\ LET r == load_path(req, World, k)
       IN  /\ req' = r.build
           /\ raised' = r.raised
    /\ found_corrupt' = FALSE
    /\ UNCHANGED <<entries, aliases, max_history, history_file, json_files,
                   profile_files, now, venv_json, computed_id>>
    /\ persist' = NotPersisted
    /\ UNCHANGED notVenv

\* cache.load(req, cache_key=cache_key, history=n)
VenvCacheLoad(cache_key, n) ==
    LET r == cache_load_on(World, req, cache_key, n)
    IN  /\ now + 2 <= MaxTime + 1
        /\ SetWorld(r.world)
        /\ req' = r.build
        /\ raised' = r.raised
        /\ found_corrupt' = r.corrupt
        /\ computed_id' = ComputedAfter(cache_key = None \/ ~r.build.from_cache)
        /\ UNCHANGED venv_json
        /\ persist' = NotPersisted
        /\ UNCHANGED notVenv

\* req.persist_venv(name)
VenvPersist ==
    LET r == persist_venv(req, venv_json)
    IN  /\ req' = r.build
        /\ venv_json' = r.json
        /\ raised' = r.raised
        /\ found_corrupt' = r.corrupt
        /\ computed_id' = ComputedAfter(~r.corrupt)
        /\ UNCHANGED <<entries, aliases, max_history, history_file, json_files,
                       profile_files, now>>
        /\ persist' = Persisted(TRUE, req, venv_json)
        /\ UNCHANGED notVenv

NextVenv ==
    \/ VenvReadBuildId
    \/ \E b \in BuildIds : VenvWriteFile(b)
    \/ \E b \in BuildIds, k \in AliasKeys \cup {None}, n \in Histories :
          OtherCacheLoad(b, k, n)
    \/ \E k \in CacheKeys : CorruptArtifact(k)
    \/ CorruptVenvJson
    \/ \E k \in CacheKeys : VenvLoad(k)
    \/ \E k \in AliasKeys \cup {None}, n \in Histories : VenvCacheLoad(k, n)
    \/ VenvPersist

SpecVenv == InitVenv /\ [][NextVenv]_vars

----------------------------------------------------------------------------
(* SpecExec: a process calls the subprocess wrappers of one shell with any *)
(* command and keyword arguments, changing its own environment in between. *)
(* `calls` keeps the latest two calls, the latest first.                   *)

Environs ==
    {NoEnviron, [NoEnviron EXCEPT !["PATH"] = "/usr/bin", !["CC"] = "gcc"]}

InitExec ==
    /\ os_environ \in Environs
    /\ shell_env = NoEnviron
    /\ act = NoActivations
    /\ calls = NoCalls
    /\ IdleStore
    /\ IdleHfile
    /\ IdleVenv
    /\ IdleRequest
    /\ IdleBuildId
    /\ IdleArgs
    /\ IdleMemo
    /\ IdlePush
    /\ IdleDumps
    /\ IdleRace

\* shell.<primitive>(cmd, impure_env=..., [env=...])
Exec(primitive, cmd, impure_env, env_given) ==
    /\ calls' = <<Call(primitive, cmd, impure_env, env_given, os_environ)>>
                \o (IF calls = <<>> THEN <<>> ELSE <<calls[1]>>)
    /\ UNCHANGED os_environ
    /\ UNCHANGED notExec

\* The host program replaces its environment.
SetEnviron(environ) ==
    /\ environ # os_environ
    /\ os_environ' = environ
    /\ UNCHANGED calls
    /\ UNCHANGED notExec

NextExec ==
    \/ \E primitive \in Primitives, cmd \in Commands,
          impure_env \in BOOLEAN, env_given \in BOOLEAN :
            Exec(primitive, cmd, impure_env, env_given)
    \/ \E environ \in Environs : SetEnviron(environ)

SpecExec == InitExec /\ [][NextExec]_vars

----------------------------------------------------------------------------
(* SpecRecency: builds are pushed under their own identities (every key is *)
(* the identity of a build here) and looked up, and the store object is    *)
(* dropped and constructed again over history.json at any time, as every   *)
(* cache.load call does.                                                   *)

InitRecency ==
    /\ entries = <<>>
    /\ aliases = NoAliases
    /\ max_history \in Histories
    /\ history_file = [exists |-> FALSE, entries |-> <<>>, aliases |-> NoAliases]
    /\ json_files = [k \in CacheKeys |-> NoJson]
    /\ profile_files = [k \in CacheKeys |-> None]
    /\ now = 1
    /\ req = NoRequest
    /\ call = NoCall
    /\ pushed = NoPushes
    /\ clean = TRUE
    /\ bound = {}
    /\ IdlePush
    /\ IdleHfile
    /\ IdleVenv
    /\ IdleRequest
    /\ IdleBuildId
    /\ IdleArgs
    /\ IdleMemo
    /\ IdleActivate
    /\ IdleExec
    /\ IdleDumps
    /\ IdleRace

\* history.push(NixBuild(b))
RecencyPush(b) ==
    /\ now <= RecencyTime
    /\ SetWorld(push(World, NewBuild(b), None))
    /\ recency' = Recency([recency.used EXCEPT ![b] = now],
                          [recency.looked EXCEPT ![b] = FALSE],
                          RetainedIds(entries), TRUE)
    /\ UNCHANGED failed
    /\ UNCHANGED notPush

\* history.lookup(key), a hit
RecencyLookup(key) ==
    LET i == lookup(World, key)
    IN  /\ i # 0
        /\ now <= RecencyTime
        /\ SetWorld(Touch(World, i))
        /\ recency' = Recency([recency.used EXCEPT ![entries[i].build_id] = now],
                              [recency.looked EXCEPT ![entries[i].build_id] = TRUE],
                              recency.before, FALSE)
        /\ UNCHANGED failed
        /\ UNCHANGED notPush

\* history = CacheHistory(history_file, max_history)
RecencyConstruct ==
    /\ SetWorld(CacheHistory_init(World, max_history))
    /\ recency' = [recency EXCEPT !.was_push = FALSE]
    /\ UNCHANGED failed
    /\ UNCHANGED notPush

NextRecency ==
    \/ \E b \in CacheKeys : RecencyPush(b)
    \/ \E key \in CacheKeys : RecencyLookup(key)
    \/ RecencyConstruct

SpecRecency == InitRecency /\ [][NextRecency]_vars

----------------------------------------------------------------------------
(* SpecPushFail: pushes on one store object, any of which can fail because *)
(* the external tool fails while the artifacts are written.                *)

InitPushFail ==
    /\ entries = <<>>
    /\ aliases = NoAliases
    /\ max_history \in Histories
    /\ history_file = [exists |-> FALSE, entries |-> <<>>, aliases |-> NoAliases]
    /\ json_files = [k \in CacheKeys |-> NoJson]
    /\ profile_files = [k \in CacheKeys |-> None]
    /\ now = 1
    /\ req = NoRequest
    /\ call = NoCall
    /\ pushed = NoPushes
    /\ clean = TRUE
    /\ bound = {}
    /\ IdlePush
    /\ IdleHfile
    /\ IdleVenv
    /\ IdleRequest
    /\ IdleBuildId
    /\ IdleArgs
    /\ IdleMemo
    /\ IdleActivate
    /\ IdleExec
    /\ IdleDumps
    /\ IdleRace

\* history.push(NixBuild(b), cache_key) raising NixError from save_json or
\* from save_link
PushFails(b, cache_key, stage) ==
    LET w == push_fails(World, NewBuild(b), cache_key, stage)
    IN  /\ SetWorld(w)
        /\ failed' = Failed(TRUE, World, w)
        /\ UNCHANGED recency
        /\ UNCHANGED notPush

NextPushFail ==
    \/ \E b \in BuildIds, k \in AliasKeys \cup {None} : Push(b, k)
    \/ \E b \in BuildIds, k \in AliasKeys \cup {None},
          stage \in {"save_json", "save_link"} : PushFails(b, k, stage)

SpecPushFail == InitPushFail /\ [][NextPushFail]_vars

----------------------------------------------------------------------------
(* SpecDumps: dumps is applied to every string of up to MaxStrLen          *)
(* characters.                                                             *)

InitDumps ==
    /\ nix_str \in Strings
    /\ dumped = NotDumped
    /\ IdleStore
    /\ IdlePush
    /\ IdleHfile
    /\ IdleVenv
    /\ IdleRequest
    /\ IdleBuildId
    /\ IdleArgs
    /\ IdleMemo
    /\ IdleActivate
    /\ IdleExec
    /\ IdleRace

\* dumps(nix_str)
Dumps ==
    /\ dumped = NotDumped
    /\ dumped' = dumps(nix_str)
    /\ UNCHANGED nix_str
    /\ UNCHANGED notDumps

NextDumps == Dumps

SpecDumps == InitDumps /\ [][NextDumps]_vars

----------------------------------------------------------------------------
(* SpecRace: two processes call cache.load(NixBuild(b), history=n), each   *)
(* for its own build, on a cache root that is empty or holds the entry of  *)
(* build 1, their file operations interleaving in every order.             *)

RaceRoots == {IdleStoreWorld, push(IdleStoreWorld, NewBuild(1), None)}

InitRace ==
    /\ \E w \in RaceRoots, n \in Histories :
          /\ history_file = w.history_file
          /\ json_files = w.json_files
          /\ profile_files = w.profile_files
          /\ now = w.now
          /\ max_history = n
    /\ entries = <<>>
    /\ aliases = NoAliases
    /\ req = NoRequest
    /\ call = NoCall
    /\ pushed = NoPushes
    /\ clean = TRUE
    /\ bound = {}
    /\ proc \in {[p \in Procs |-> Process("start", bs[p], <<>>, NoAliases)] :
                    bs \in [Procs -> BuildIds]}
    /\ race = NoRace
    /\ IdlePush
    /\ IdleDumps
    /\ IdleHfile
    /\ IdleVenv
    /\ IdleRequest
    /\ IdleBuildId
    /\ IdleArgs
    /\ IdleMemo
    /\ IdleActivate
    /\ IdleExec

\* CacheHistory(history_file, history); entry = cache_history.get(build);
\* json_path.exists()
RaceRead(p) ==
    /\ proc[p].pc = "start"
    /\ LET w0 == CacheHistory_init(WorldOf(p), max_history)
           i == get(w0, NewBuild(proc[p].b))
           w1 == Touch(w0, i)
       IN  /\ proc' = [proc EXCEPT ![p] =
                         Process(IF cache_load_hit(w1, i) THEN "hit" ELSE "miss",
                                 proc[p].b, w1.entries, w1.aliases)]
           /\ now' = w1.now
    /\ UNCHANGED <<history_file, json_files, profile_files, race>>
    /\ UNCHANGED notRace

\* The hit branch: build.load(json_path); cache_history._save()
RaceLoadAndSave(p) ==
    /\ proc[p].pc = "hit"
    /\ history_file' = CacheHistory_save(WorldOf(p)).history_file
    /\ proc' = [proc EXCEPT ![p].pc = "done"]
    /\ race' = AfterWrite(p, TRUE)
    /\ UNCHANGED <<json_files, profile_files, now>>
    /\ UNCHANGED notRace

\* push: build.save_json(json_path)
RaceSaveJson(p) ==
    /\ proc[p].pc = "miss"
    /\ json_files' = [json_files EXCEPT ![proc[p].b] = save_json(NewBuild(proc[p].b))]
    /\ proc' = [proc EXCEPT ![p].pc = "json"]
    /\ race' = [AfterWrite(p, FALSE) EXCEPT !.missed = @ \cup {p}]
    /\ UNCHANGED <<history_file, profile_files, now>>
    /\ UNCHANGED notRace

\* push: build.save_link(profile_path)
RaceSaveLink(p) ==
    /\ proc[p].pc = "json"
    /\ profile_files' = [profile_files EXCEPT ![proc[p].b] = proc[p].b]
    /\ proc' = [proc EXCEPT ![p].pc = "link"]
    /\ UNCHANGED <<history_file, json_files, now, race>>
    /\ UNCHANGED notRace

\* push: the entry, the sort, the eviction and _save
RacePushEntries(p) ==
    /\ proc[p].pc = "link"
    /\ LET w == push_entries(WorldOf(p), NewBuild(proc[p].b), None)
       IN  /\ history_file' = w.history_file
           /\ json_files' = w.json_files
           /\ profile_files' = w.profile_files
           /\ now' = w.now
           /\ proc' = [proc EXCEPT ![p] =
                         Process("done", proc[p].b, w.entries, w.aliases)]
    /\ race' = AfterWrite(p, TRUE)
    /\ UNCHANGED notRace

NextRace ==
    \/ \E p \in Procs : RaceRead(p)
    \/ \E p \in Procs : RaceLoadAndSave(p)
    \/ \E p \in Procs : RaceSaveJson(p)
    \/ \E p \in Procs : RaceSaveLink(p)
    \/ \E p \in Procs : RacePushEntries(p)

SpecRace == InitRace /\ [][NextRace]_vars

----------------------------------------------------------------------------
(* Claims.                                                                 *)

PushedIds == {b \in BuildIds : pushed[b].at # 0}
EvictedIds == PushedIds \ RetainedIds(entries)

\* C1: with max_history = N, after k > N pushes of builds with pairwise
\* distinct identities, each under its own file key, the store holds exactly
\* N entries, they are the N most recently pushed by timestamp, and neither
\* the <key>.json nor the <key>-profile file of an evicted entry exists.
C1_BoundedHistory ==
    (clean /\ Cardinality(PushedIds) > max_history) =>
        /\ Len(entries) = max_history
        /\ Cardinality(RetainedIds(entries)) = max_history
        /\ RetainedIds(entries) \subseteq PushedIds
        /\ \A i \in 1..Len(entries) : entries[i].timestamp = pushed[entries[i].build_id].at
        /\ \A r \in RetainedIds(entries), e \in EvictedIds : pushed[r].at > pushed[e].at
        /\ \A e \in EvictedIds : /\ json_files[pushed[e].key] = NoJson
                                 /\ profile_files[pushed[e].key] = None

\* More than N distinct builds were pushed, one of them under an alias key,
\* and an entry has been evicted.
C1_Witness ==
    /\ clean
    /\ Cardinality(PushedIds) > max_history
    /\ \E e \in EvictedIds : pushed[e].key \in AliasKeys

\* lookup(alias) and lookup(identity) return the same entry, the retained
\* entry of that identity.
SameEntry(x) ==
    /\ lookup(World, x.alias) # 0
    /\ lookup(World, x.alias) = lookup(World, x.build_id)
    /\ entries[lookup(World, x.alias)].build_id = x.build_id

C3_Original == call.had_entry => (req.from_cache /\ req.tools = 0)

\* C3 as amended: ... has a retained entry whose JSON artifact exists, and
\* the key looked up (the cache_key if one is given, else X) resolves to that
\* entry, the call makes no external tool invocation, ...
C3_CacheHitShortCircuit == call.found => (req.from_cache /\ req.tools = 0)

\* cache.load has populated a build from the stored JSON of its own identity,
\* which an alias maps to, without a tool invocation.
C3_Witness ==
    /\ call.found
    /\ req.from_cache
    /\ req.build_id = req.params
    /\ req.tools = 0
    /\ \E k \in AliasKeys : aliases[k] = req.params

\* C4: an identity mismatch is a miss: a build is never populated from
\* metadata stored for another identity; it is rebuilt instead.
C4_MismatchIsMiss ==
    req.from_cache => /\ req.build_id = req.params
                      /\ req.derivation = req.params
                      /\ req.dev_env = req.params

\* C5: for every retained entry, the JSON artifact at its json_path, once
\* read, contains the entry's build_id, also when several different builds
\* are pushed under the same alias key.
C5_JsonRoundTrip ==
    \A i \in 1..Len(entries) :
        json_files[entries[i].json_path] # NoJson =>
            json_files[entries[i].json_path].build_id = entries[i].build_id

\* C6: the number of retained entries is at most max_history in every
\* reachable state, construction from a persisted history included.
C6_AtMostN == Len(entries) <= max_history

\* C7: the entry sequence is in strictly descending timestamp order after
\* every mutating operation, so peek() returns the newest entry.
C7_SortedDescending ==
    /\ \A i \in 1..(Len(entries) - 1) : entries[i].timestamp > entries[i + 1].timestamp
    /\ peek(World) # 0 =>
          \A i \in 1..Len(entries) : entries[peek(World)].timestamp >= entries[i].timestamp

C10_GetLikeLookup == \A k \in CacheKeys : get_str(World, k) = lookup(World, k)

\* C11: constructing a CacheHistory never fails because of the history
\* file's content: a bare list is accepted as the entries with no aliases,
\* an object supplies entries and aliases, and any other content (invalid
\* JSON, or valid JSON of neither schema) yields a store with no entries and
\* no aliases.
C11_FailSoftLoad ==
    hstore.constructed =>
        /\ hstore.raised = NoError
        /\ hfile.kind = "list" =>
              (hstore.entries = hfile.entries /\ hstore.aliases = NoAliases)
        /\ hfile.kind = "object" =>
              /\ hfile.has_entries => hstore.entries = hfile.entries
              /\ hfile.has_aliases => hstore.aliases = hfile.aliases
        /\ hfile.kind \notin {"list", "object"} =>
              (hstore.entries = <<>> /\ hstore.aliases = NoAliases)

\* C12: an unparseable per-entry metadata JSON artifact is treated as a cache
\* miss, not a fatal error: cache.load, and persist_venv, finding a corrupt
\* stored JSON do not raise but rebuild and overwrite the artifact.
C12_CorruptIsMiss ==
    found_corrupt => /\ raised = NoError
                     /\ req.derivation # None
                     /\ req.dev_env # None

\* C14: once build_id has been computed for a NixBuild instance, every later
\* read of build_id on that instance returns the same value, across changes
\* to the referenced files, load() of a cached JSON, persist_venv, and
\* cache.load hit or miss.
C14_StableBuildId == computed_id # None => build_id_of(req) = computed_id

\* The inputs of a request that C13 names: the impure flag, the contents of
\* the referenced file, the set of include (name, file contents) entries,
\* and the installable, ref and expr values.
FileContents(pr, fs) == IF pr.file # Missing THEN fs[pr.file] ELSE Missing
IncludeContents(pr, fs) ==
    {<<pr.include[i][1], fs[pr.include[i][2]]>> : i \in 1..Len(pr.include)}
SameEffectiveInputs ==
    /\ other.edit # "none"
    /\ other.params.impure = params.impure
    /\ FileContents(other.params, other.files) = FileContents(params, files)
    /\ IncludeContents(other.params, other.files) = IncludeContents(params, files)
    /\ other.params.installable = params.installable
    /\ other.params.ref = params.ref
    /\ other.params.expr = params.expr

NoNameTwice(pr) ==
    \A i, j \in 1..Len(pr.include) : i # j => pr.include[i][1] # pr.include[j][1]

\* C13 as stated: two requests with the same impure flag, byte-identical
\* referenced file contents, the same set of include (name, file contents)
\* entries given in any order, and the same installable, ref and expr values
\* yield the same digest.
C13_Original == SameEffectiveInputs => other.digest = digest

\* C13 as amended: ... the same set of include (name, file contents) entries
\* given in any order, no include name occurring twice in a request, ...
C13_SameInputsSameDigest ==
    (SameEffectiveInputs /\ NoNameTwice(params) /\ NoNameTwice(other.params))
        => other.digest = digest

\* Two include entries with different names and different contents were
\* given in the other order, and the digest is the same.
C13_Witness ==
    /\ other.edit = "order"
    /\ SameEffectiveInputs
    /\ NoNameTwice(params)
    /\ Cardinality(IncludeContents(params, files)) = 2
    /\ \E i \in 1..Len(params.include) : sorted(params.include)[i] # params.include[i]
    /\ other.digest = digest

\* C15: changing any byte of the referenced file, or changing any entry (its
\* name or its path) of the include mappings, changes the digest.
C15_ChangeChangesDigest ==
    other.edit \in {"file", "include_name", "include_path"} => other.digest # digest

\* A request with none of ref, expr, file.
NoSource(pr) == pr.ref = Missing /\ pr.expr = Missing /\ pr.file = Missing

\* C16: a build request with no primary source is a usage error: build,
\* derivation and dev_env on it fail immediately and locally with a
\* descriptive message, before any external tool invocation, and are never
\* retried.
C16_NoSourceIsUsageError ==
    (NoSource(params) /\ result.op \in {"build", "derivation", "dev_env"}) =>
        /\ result.exc.type = "UsageError"
        /\ result.runs = 0

\* The argument list C17 describes: the arguments of exactly one primary
\* source, ref over expr over file (the installable only together with
\* file), then '--impure' when impure is set, then one '-I name=path' pair per
\* include entry in the given order.
ExpectedSource(pr) ==
    CASE pr.ref # Missing -> <<pr.ref>>
      [] pr.ref = Missing /\ pr.expr # Missing -> <<"--expr", pr.expr>>
      [] pr.ref = Missing /\ pr.expr = Missing /\ pr.file # Missing ->
            IF pr.installable # Missing THEN <<"-f", pr.file, pr.installable>>
            ELSE <<"-f", pr.file>>
      [] OTHER -> <<>>

ExpectedArgs(pr) ==
    ExpectedSource(pr)
    \o (IF pr.impure THEN <<"--impure">> ELSE <<>>)
    \o [k \in 1..(2 * Len(pr.include)) |->
           IF k % 2 = 1 THEN "-I"
           ELSE pr.include[k \div 2][1] \o "=" \o pr.include[k \div 2][2]]

\* C17: _parse_args emits the arguments of exactly one primary source,
\* choosing ref over expr over file: the ref alone, or '--expr' followed by
\* the expression, or '-f' file [installable]; then '--impure'; then the
\* '-I name=path' pairs; with no parameters it emits the empty list.
C17_ParseArgs ==
    args.parsed => /\ args.cli = ExpectedArgs(params)
                   /\ args.nix = ExpectedArgs(params)

\* C18: every failure of a tool invocation made through the facade reaches
\* the caller as a NixError carrying the original subprocess failure, the
\* request parameters and the command line, and the failed tool is not run
\* again.
C18_FailureIsNixError ==
    result.exc # NoException =>
        /\ result.exc.type = "NixError"
        /\ result.exc.original = "CalledProcessError"
        /\ result.exc.params \in {params, CurrentSystemRequest, NixpkgsPathRequest}
        /\ Len(result.exc.command) >= 2
        /\ result.exc.command[1] = "nix"
        /\ result.op # "env" => result.runs = 1

\* C19: store_paths(), derivation, dev_env, env, current_system and
\* impure_nixpkgs_path compute on the first access and return the stored
\* value afterwards: the accesses of a slot make at most one successful tool
\* run, an access of a filled slot runs nothing and returns the stored value,
\* the stored value of a slot never changes (store_paths: only by build()),
\* and an access that fails leaves its slot empty.
C19_ComputeOnce ==
    /\ \A s \in Slots : slots.computed[s] <= 1
    /\ \A s \in Slots \ {"store_paths"} :
          /\ slots.memo[s] = slots.first[s]
          /\ slots.computed[s] = 0 <=> slots.memo[s] = NotCached
    /\ result.op \in Slots =>
          /\ result.was_cached => /\ result.exc = NoException
                                  /\ result.runs = 0
          /\ result.exc = NoException => /\ result.value # NotCached
                                         /\ result.value = slots.memo[result.op]
          /\ result.exc # NoException => slots.memo[result.op] = NotCached

\* A slot read again after it was filled, after failed attempts elsewhere and
\* with build() having replaced the store paths in between.
C19_Witness ==
    /\ result.op = "derivation"
    /\ result.was_cached
    /\ result.runs = 0
    /\ result.value = slots.first["derivation"]
    /\ slots.computed["env"] = 1
    /\ slots.computed["store_paths"] = 1
    /\ slots.memo["store_paths"] # slots.first["store_paths"]
    /\ slots.memo["current_system"] # NotCached

\* C20: activate() changes the process environment exactly so: a captured
\* variable of the path-like allow-list that already exists in the process
\* environment becomes captured value, path separator, old value; every
\* other captured variable is set to its captured value; every variable
\* absent from the captured environment is left unchanged.
C20_Activate ==
    act.latest =>
        \A k \in DOMAIN os_environ :
            os_environ[k] =
                IF shell_env[k] = Absent THEN act.before[k]
                ELSE IF k \in LIST_LIKE_VARS /\ act.before[k] # Absent
                     THEN shell_env[k] \o os_pathsep \o act.before[k]
                     ELSE shell_env[k]

\* A second activation that prepends to PATH, sets PYTHONPATH which the
\* host had removed, overwrites CC and leaves HOME alone.
C20_Witness ==
    /\ act.latest
    /\ act.count = 2
    /\ shell_env["HOME"] = Absent
    /\ os_environ["HOME"] = "/usr/bin"
    /\ os_environ["PATH"] = "/nix/store/bin:/nix/store/bin:/usr/bin"
    /\ act.before["PYTHONPATH"] = Absent
    /\ os_environ["PYTHONPATH"] = "/nix/store/bin"
    /\ act.before["CC"] = "/nix/store/bin"
    /\ os_environ["CC"] = "/nix/store/bin"

\* The command text C21 describes.
CommandText(cmd) ==
    IF cmd.is_list
    THEN CASE cmd.argv = <<"echo", "a b">> -> "echo 'a b'"
    ELSE cmd.text

\* C21: each of run, check_output, Popen, call, check_call, getoutput and
\* getstatusoutput calls its subprocess primitive, with arguments the
\* primitive accepts, with the command [builder, '-c', dev_env text + newline +
\* command text], an argument list being shell-quoted and joined and a string
\* appended as it is.
C21_WrappedCommand ==
    \A i \in 1..Len(calls) :
        /\ calls[i].invoked.exc = NoError
        /\ calls[i].invoked.cmd =
              <<ShellBuilder, "-c",
                ShellDevEnv \o "\n" \o CommandText(calls[i].cmd)>>

SameInputs(c1, c2) ==
    /\ c1.primitive = c2.primitive
    /\ c1.cmd = c2.cmd
    /\ c1.impure_env = c2.impure_env
    /\ c1.env_given = c2.env_given

\* C30: unless the caller passes env or impure_env=True, the environment
\* handed to the subprocess by run, check_output, Popen, call and check_call
\* is empty, and two calls with the same command that differ only in the
\* process environment make the same invocation.
C30_EnvIndependent ==
    \A i \in 1..Len(calls) :
        (/\ accepts_env(calls[i].primitive)
         /\ ~calls[i].impure_env
         /\ ~calls[i].env_given) =>
            /\ calls[i].invoked.env = NoEnviron
            /\ \A j \in 1..Len(calls) :
                  SameInputs(calls[i], calls[j]) =>
                      calls[j].invoked = calls[i].invoked

\* The same call made twice under different process environments, and the
\* impure call of the same command does see the environment.
C30_Witness ==
    /\ Len(calls) = 2
    /\ SameInputs(calls[1], calls[2])
    /\ calls[1].primitive = "check_output"
    /\ ~calls[1].impure_env
    /\ ~calls[1].env_given
    /\ calls[1].environ # calls[2].environ
    /\ calls[1].environ # NoEnviron
    /\ calls[1].invoked = calls[2].invoked
    /\ calls[1].invoked.exc = NoError
    /\ exec("check_output", calls[1].cmd, TRUE, FALSE, calls[1].environ).env
          = calls[1].environ

\* C22: persist_venv(name): if <name>.json exists and its build_id equals
\* the build's identity (self.build_id), the saved metadata is loaded and no
\* external tool is invoked, the bundle staying as it is; otherwise every
\* cached-property field is evaluated and written to <name>.json and the
\* profile link is created.
C22_PersistVenv ==
    persist.done =>
        IF /\ persist.json # NoJson
           /\ persist.json.build_id = build_id_of(persist.build)
        THEN /\ raised = NoError
             /\ req.tools = 0
             /\ venv_json = persist.json
             /\ req.derivation = persist.json.derivation
             /\ req.dev_env = persist.json.dev_env
        ELSE /\ raised = NoError
             /\ venv_json = save_json(persist.build)
             /\ req.derivation = derivation_of(persist.build)
             /\ req.dev_env = dev_env_of(persist.build)
             /\ req.tools = save_json_tools(persist.build) + save_link_tools

\* C23: every push and every get (lookup) reloads the persisted history,
\* mutates it and saves it, so that history.json always holds what the store
\* object holds: the entries with their latest timestamps, and the aliases.
C23_PersistedIsLatest ==
    /\ entries # <<>> => history_file.exists
    /\ history_file.exists => /\ history_file.entries = entries
                              /\ history_file.aliases = aliases

\* C27: evicting an entry never deletes a file a retained entry still
\* references: after any sequence of pushes, every retained entry's JSON
\* artifact and profile link exist on disk.
C27_RetainedArtifactsExist ==
    \A i \in 1..Len(entries) :
        /\ json_files[entries[i].json_path] # NoJson
        /\ profile_files[entries[i].profile_path] # None

\* C28: no artifact is leaked: every <key>.json and <key>-profile file that
\* push created is referenced by a retained entry.
C28_NoLeakedArtifact ==
    \A k \in CacheKeys :
        /\ json_files[k] # NoJson =>
              \E i \in 1..Len(entries) : entries[i].json_path = k
        /\ profile_files[k] # None =>
              \E i \in 1..Len(entries) : entries[i].profile_path = k

\* C25: a lookup hit refreshes the entry's timestamp so that eviction follows
\* recency of use: if A was looked up after B was last pushed or looked up,
\* a later push that evicts exactly one of A and B evicts B, not A.
C25_EvictionFollowsUse ==
    recency.was_push =>
        \A A \in recency.before, B \in recency.before :
            (/\ recency.looked[A]
             /\ recency.used[A] > recency.used[B]
             /\ (A \in RetainedIds(entries)) # (B \in RetainedIds(entries)))
                => A \in RetainedIds(entries)

\* C29: a push that fails because the external tool fails while the
\* artifacts are written has no effect on the store: the entries, the
\* aliases, history.json and the artifact files of the existing entries are
\* as they were before the call.
C29_FailedPushNoEffect ==
    failed.done =>
        /\ failed.after.entries = failed.before.entries
        /\ failed.after.aliases = failed.before.aliases
        /\ failed.after.history_file = failed.before.history_file
        /\ \A i \in 1..Len(failed.before.entries) :
              LET entry == failed.before.entries[i]
              IN  /\ failed.after.json_files[entry.json_path]
                        = failed.before.json_files[entry.json_path]
                  /\ failed.after.profile_files[entry.profile_path]
                        = failed.before.profile_files[entry.profile_path]

\* The text with one indent unit before each of its lines.
RECURSIVE EveryLineIndented(_, _)
EveryLineIndented(s, at_line_start) ==
    IF s = <<>> THEN <<>>
    ELSE (IF at_line_start THEN <<" ", " ">> ELSE <<>>)
         \o <<Head(s)>> \o EveryLineIndented(Tail(s), Head(s) = "\n")

\* C24: dumps of a string that contains a newline or a double quote is the
\* raw-block form: two single quotes, newline, the text indented by one
\* unit, newline, two single quotes; dumps of any other string is the text
\* between double quotes with no escaping.
C24_DumpsString ==
    dumped # NotDumped =>
        dumped = IF \E i \in 1..Len(nix_str) : nix_str[i] \in {"\n", "\""}
                 THEN <<"'", "'", "\n">> \o EveryLineIndented(nix_str, TRUE)
                      \o <<"\n", "'", "'">>
                 ELSE <<"\"">> \o nix_str \o <<"\"">>

BothDone == \A p \in Procs : proc[p].pc = "done"

\* C26: two processes running cache-load on the same cache root are not
\* serialized: when both read the history before either writes, each for a
\* build of its own that is not cached, then after both have finished the
\* history file holds the last writer's entries and not the other's entry
\* (last-writer-wins), while the other process's artifact files are on disk
\* with no entry referencing them.
C26_LastWriterWins ==
    (/\ BothDone
     /\ race.first_write = "after_reads"
     /\ race.missed = Procs
     /\ proc[1].b # proc[2].b) =>
        LET last == race.last_writer
            first == CHOOSE p \in Procs : p # race.last_writer
        IN  /\ history_file.entries = proc[last].entries
            /\ proc[last].b \in RetainedIds(history_file.entries)
            /\ proc[first].b \notin RetainedIds(history_file.entries)
            /\ json_files[proc[first].b] # NoJson
            /\ profile_files[proc[first].b] # None
            /\ \A i \in 1..Len(history_file.entries) :
                  /\ history_file.entries[i].json_path # proc[first].b
                  /\ history_file.entries[i].profile_path # proc[first].b

\* Both processes read the empty history, both wrote their artifacts, and
\* the history file has the one entry of the process that saved last although
\* it has room for two.
C26_Witness ==
    /\ BothDone
    /\ race.first_write = "after_reads"
    /\ race.missed = Procs
    /\ proc[1].b # proc[2].b
    /\ max_history = 2
    /\ race.last_writer = 1
    /\ Len(history_file.entries) = 1
    /\ history_file.entries[1].build_id = proc[1].b
    /\ json_files[proc[2].b] # NoJson

====
